---- MODULE Spec2Model ----
(***************************************************************************)
(* Model of the graphing calculator's reactive pipeline:                   *)
(*   - ExpressionParser   (client/math/expression-parser.js)               *)
(*   - expression detector (client/utils/expression-detector.js)           *)
(*   - FunctionEvaluator  (client/math/function-evaluator.js)              *)
(*   - StateManager / EventBus (client/core)                               *)
(*   - GraphEngine        (client/graph-engine.js)                         *)
(*   - ExpressionList     (client/components/expression-list.js)           *)
(*                                                                         *)
(* Expression texts are sequences of tokens (one token per lexeme, blanks  *)
(* between them).  Numbers are integers.  Time advances in ticks of 100 ms.*)
(***************************************************************************)
EXTENDS Integers, Sequences, FiniteSets, TLC

VARIABLES
    \* ---- ExpressionParser instance under direct test ----
    cache,          \* Map in insertion order: sequence of [key, value]
    cacheHits,
    cacheMisses,
    pText,          \* the expression text the calls are made with
    pRes,           \* outcome of the last call made on the parser
    \* ---- FunctionEvaluator instance under direct test (it owns the parser) ----
    parsedExpression,   \* this.parsedExpression, NoParsed = null
    evalRes,            \* outcome of the last call made on the evaluator
    \* ---- StateManager.state ----
    functions,      \* state.functions: sequence of FunctionRecord
    controls,       \* state.controls: map name -> number
    stViewport,     \* state.viewport: object reference, 0 = undefined
    heap,           \* viewport objects by reference
    \* ---- GraphEngine fields ----
    engViewport,    \* this.viewport: object reference
    isDragging,
    frameId,        \* 0 = null
    parameterDetectionTimeout,   \* 0 = null
    saveTimeout,                 \* 0 = null
    pendingErrorUpdates,         \* Map id -> error, as a sequence of [id, error]
    unsubscribers,  \* events whose EventBus listener is still registered
    resizeListener, \* window 'resize' listener registered
    canvasListeners,\* canvas mouse / wheel listeners registered
    \* ---- host scheduling primitives ----
    rafQueue,       \* frame callbacks scheduled and not yet run or cancelled
    timers,         \* pending timers: set of [id, kind, remaining]
    \* ---- ExpressionList fields ----
    renderedItems,  \* id -> [slider, varName]
    focus,          \* id of the function whose input is document.activeElement, 0 = none
    \* ---- observation of the last handler ----
    trace,          \* effects of the last handler, in order
    sinceExpr,      \* ticks since the last expression:updated reached the engine
    destroyed,      \* destroy() has been called
    userSteps,      \* user inputs so far
    \* ---- EventBus instance under direct test ----
    subscribers,    \* Map eventName -> array of [id, callback, once]
    eventHistory,   \* array of [eventName, data]
    \* ---- StateManager instance under direct test ----
    state,          \* the state tree: path -> kind of the node at that path
    stateSubscribers,   \* StateManager.subscribers: Map path -> array of [id, callback]
    history,        \* array of [path, oldValue, newValue]
    \* ---- observation of the calls made on the two ----
    registry,       \* every listener ever registered, by id: [owner, name, callback, once, calls]
    log,            \* effects of the last call, in order
    lastOp          \* the last call and how it ended

evalVars == <<parsedExpression, evalRes>>

parserVars == <<cache, cacheHits, cacheMisses, pText, pRes, evalVars>>

storeVars == <<functions, controls, stViewport, heap>>

engineVars == <<engViewport, isDragging, frameId, parameterDetectionTimeout, saveTimeout,
                pendingErrorUpdates, unsubscribers, resizeListener, canvasListeners>>

hostVars == <<rafQueue, timers>>

listVars == <<renderedItems, focus>>

obsVars == <<trace, sinceExpr, destroyed, userSteps>>

coreVars == <<subscribers, eventHistory, state, stateSubscribers, history, registry, log, lastOp>>

vars == <<parserVars, storeVars, engineVars, hostVars, listVars, obsVars, coreVars>>

(***************************************************************************)
(* Bounds                                                                  *)
(***************************************************************************)
MaxLen == 2

MaxCalls == 2

MaxUserSteps == 2

MaxFuncs == 2

\* largest magnitude of a number (the model's Number.MAX_VALUE)
MaxNumber == 40

MaxNavSteps == 6

NULL == "null"

\* defaultConfig.viewport
DefaultViewport == [xMin |-> -10, xMax |-> 10, yMin |-> -10, yMax |-> 10]

\* canvas size in pixels (parent.clientWidth / clientHeight)
CanvasWidth == 2

CanvasHeight == 2

ObjIds == 1..3

(***************************************************************************)
(* Expression texts and the math.js parser                                 *)
(***************************************************************************)
Symbols == {"x", "y", "a", "b"}

Numbers == {"1", "2"}

Tok == Symbols \cup Numbers \cup {"*", "="}

\* function names that occur as tokens of a text
CallNames == {"abs"}

\* texts with parentheses: function calls f(...) and parenthesised groups
CallTexts == { <<"abs", "(", "x", ")">>,
               <<"abs", "(", "x", ")", "*", "y">>,
               <<"abs", "(", "y", ")", "*", "x">>,
               <<"abs", "(", "2", "*", "x", ")">>,
               <<"abs", "(", "abs", "(", "x", ")", ")">>,
               <<"abs", "(", "a", ")">>,
               <<"a", "(", "x", ")">>,
               <<"(", "x", ")">>,
               <<"abs", "(", "x">> }

RECURSIVE TextsOfLen(_)
TextsOfLen(n) ==
    IF n = 0 THEN {<<>>}
    ELSE {Append(t, k) : t \in TextsOfLen(n - 1), k \in Tok}

AllTexts == UNION {TextsOfLen(n) : n \in 0..MaxLen}

NumberValue(t) == IF t = "1" THEN 1 ELSE 2

\* Position of the first "=" in text, 0 if none.
RECURSIVE firstAssign(_, _)
firstAssign(text, i) ==
    IF i > Len(text) THEN 0
    ELSE IF text[i] = "=" THEN i
    ELSE firstAssign(text, i + 1)

\* Position of the ")" that closes a parenthesis opened before position i
\* (depth counts the parentheses still open), 0 if there is none.
RECURSIVE matchParen(_, _, _)
matchParen(text, i, depth) ==
    IF i > Len(text) THEN 0
    ELSE IF text[i] = "(" THEN matchParen(text, i + 1, depth + 1)
    ELSE IF text[i] = ")"
         THEN IF depth = 1 THEN i ELSE matchParen(text, i + 1, depth - 1)
    ELSE matchParen(text, i + 1, depth)

\* parseAccessors: a symbol directly followed by "(" is the callee of a
\* FunctionNode
IsCallee(text, i) ==
    /\ i < Len(text)
    /\ text[i] \in Symbols \cup CallNames
    /\ text[i + 1] = "("

\* parseMultiplyDivide / parseImplicitMultiplication of math.js on a text
\* without "=": st is "need" (an operand is expected), "sym" or "num" (kind
\* of the last operand).  A symbol may follow any operand (implicit
\* multiplication), a number only a symbol.  A call f(...) and a group (...)
\* are operands that behave as a symbol does.
RECURSIVE scanProduct(_, _, _)
scanProduct(text, i, st) ==
    IF i > Len(text) THEN st # "need"
    ELSE LET t == text[i] IN
         IF IsCallee(text, i)
         THEN LET j == matchParen(text, i + 2, 1)
              IN /\ j # 0
                 /\ scanProduct(SubSeq(text, i + 2, j - 1), 1, "need")
                 /\ scanProduct(text, j + 1, "sym")
         ELSE IF t = "("
         THEN LET j == matchParen(text, i + 1, 1)
              IN /\ j # 0
                 /\ scanProduct(SubSeq(text, i + 1, j - 1), 1, "need")
                 /\ scanProduct(text, j + 1, "sym")
         ELSE IF t \in Symbols \cup CallNames THEN scanProduct(text, i + 1, "sym")
         ELSE IF t \in Numbers
              THEN (st \in {"need", "sym"}) /\ scanProduct(text, i + 1, "num")
         ELSE IF t = "*" THEN (st # "need") /\ scanProduct(text, i + 1, "need")
         ELSE FALSE

\* math.parse(text): does it succeed (no SyntaxError)?
RECURSIVE mathParseOk(_)
mathParseOk(text) ==
    LET p == firstAssign(text, 1) IN
    IF p = 0 THEN scanProduct(text, 1, "need")
    ELSE /\ p = 2
         /\ text[1] \in Symbols
         /\ mathParseOk(SubSeq(text, 3, Len(text)))

\* type of the root node of a successfully parsed text
nodeType(text) ==
    IF firstAssign(text, 1) # 0 THEN "AssignmentNode"
    ELSE IF IsCallee(text, 1) /\ matchParen(text, 3, 1) = Len(text) THEN "FunctionNode"
    ELSE IF Len(text) > 0 /\ text[1] = "(" /\ matchParen(text, 2, 1) = Len(text)
         THEN "ParenthesisNode"
    ELSE IF Len(text) = 1 /\ text[1] \in Symbols THEN "SymbolNode"
    ELSE IF Len(text) = 1 THEN "ConstantNode"
    ELSE "OperatorNode"

\* Sequence membership and ordered-set insertion (new Set(...).add in visit order)
InSeq(s, e) == \E i \in 1..Len(s) : s[i] = e

AddUnique(s, e) == IF InSeq(s, e) THEN s ELSE Append(s, e)

ConstantNames == {"e", "pi", "PI", "E", "i", "Infinity", "NaN", "true", "false"}

FunctionNames == {"sin", "cos", "tan", "asin", "acos", "atan", "atan2", "sinh", "cosh",
                  "tanh", "sqrt", "abs", "exp", "log", "log10", "ln", "floor", "ceil",
                  "round", "sign", "min", "max", "pow"}

\* the parent of the symbol node at position i is a FunctionNode: the symbol
\* is the callee, or it is the whole of an argument of a call
ParentIsFunctionNode(text, i) ==
    \/ IsCallee(text, i)
    \/ /\ i > 2
       /\ i < Len(text)
       /\ text[i - 1] = "("
       /\ text[i + 1] = ")"
       /\ IsCallee(text, i - 2)

\* _extractVariables(node): symbol nodes in traversal (textual) order, without
\* constants and function names and without the symbols whose parent is a
\* FunctionNode, each once.
RECURSIVE extractFrom(_, _, _)
extractFrom(text, i, acc) ==
    IF i > Len(text) THEN acc
    ELSE IF /\ text[i] \in Symbols \cup CallNames
            /\ text[i] \notin ConstantNames /\ text[i] \notin FunctionNames
            /\ ~ParentIsFunctionNode(text, i)
         THEN extractFrom(text, i + 1, AddUnique(acc, text[i]))
         ELSE extractFrom(text, i + 1, acc)

extractVariables(text) == extractFrom(text, 1, <<>>)

Abs(n) == IF n < 0 THEN -n ELSE n

\* compiled.evaluate(scope): [thr, v], thr when a symbol is undefined in scope
\* or a callee is no function, else the value v.  An assignment evaluates to
\* the value of its right-hand side.
RECURSIVE evalFrom(_, _, _, _)
evalFrom(text, i, scope, acc) ==
    IF i > Len(text) THEN [thr |-> FALSE, v |-> acc]
    ELSE LET t == text[i] IN
         IF IsCallee(text, i)
         THEN LET j == matchParen(text, i + 2, 1)
                  arg == evalFrom(SubSeq(text, i + 2, j - 1), 1, scope, 1)
              IN IF arg.thr \/ t # "abs" THEN [thr |-> TRUE, v |-> 0]
                 ELSE evalFrom(text, j + 1, scope, acc * Abs(arg.v))
         ELSE IF t = "("
         THEN LET j == matchParen(text, i + 1, 1)
                  arg == evalFrom(SubSeq(text, i + 1, j - 1), 1, scope, 1)
              IN IF arg.thr THEN [thr |-> TRUE, v |-> 0]
                 ELSE evalFrom(text, j + 1, scope, acc * arg.v)
         ELSE IF t \in Symbols \cup CallNames
         THEN IF t \in DOMAIN scope THEN evalFrom(text, i + 1, scope, acc * scope[t])
              ELSE [thr |-> TRUE, v |-> 0]
         ELSE IF t \in Numbers THEN evalFrom(text, i + 1, scope, acc * NumberValue(t))
         ELSE evalFrom(text, i + 1, scope, acc)

RECURSIVE compiledEvaluate(_, _)
compiledEvaluate(text, scope) ==
    LET p == firstAssign(text, 1) IN
    IF p = 0 THEN evalFrom(text, 1, scope, 1)
    ELSE compiledEvaluate(SubSeq(text, 3, Len(text)), scope)

EmptyScope == [s \in {} |-> 0]

(***************************************************************************)
(* ExpressionParser                                                        *)
(***************************************************************************)
ShapeError == "Expression must be a non-empty string"

MissingXError == "must contain variable 'x'"

DetectError == "Failed to detect variables in expression"

SyntaxError == "SyntaxError"

\* detectVariables(expression): [threw, msg, value]
detectVariables(text) ==
    IF text = <<>> THEN [threw |-> TRUE, msg |-> ShapeError, value |-> <<>>]
    ELSE IF ~mathParseOk(text) THEN [threw |-> TRUE, msg |-> DetectError, value |-> <<>>]
    ELSE LET allSymbols == extractVariables(text)
             variables == SelectSeq(allSymbols, LAMBDA v : v = "x" \/ v = "y")
         IN IF ~InSeq(variables, "x")
            THEN [threw |-> TRUE, msg |-> MissingXError, value |-> <<>>]
            ELSE [threw |-> FALSE, msg |-> NULL,
                  value |-> IF InSeq(variables, "y") THEN <<"x", "y">> ELSE <<"x">>]

\* getAllVariables(expression)
getAllVariables(text) ==
    IF text = <<>> THEN <<>>
    ELSE IF mathParseOk(text) THEN extractVariables(text)
    ELSE <<>>

\* validate(expression): [isValid, error]; math.parse accepts the empty text
validate(text) ==
    IF text = <<>> \/ mathParseOk(text) THEN [isValid |-> TRUE, error |-> NULL]
    ELSE [isValid |-> FALSE, error |-> SyntaxError]

RECURSIVE Join(_, _)
Join(s, sep) ==
    IF s = <<>> THEN <<>>
    ELSE IF Len(s) = 1 THEN <<s[1]>>
    ELSE <<s[1], sep>> \o Join(Tail(s), sep)

\* a key made of the text alone
cacheKeyTextOnly(text, variables) == text

\* `${expression}:${variables.join(',')}`
cacheKey(text, variables) == text \o <<":">> \o Join(variables, ",")

maxCacheSize == 100

cacheIndex(c, key) ==
    IF \E i \in 1..Len(c) : c[i].key = key
    THEN CHOOSE i \in 1..Len(c) : c[i].key = key
    ELSE 0

\* an insertion that never evicts
addToCacheNoEvict(c, key, parsed) == Append(c, [key |-> key, value |-> parsed])

\* _addToCache(key, parsed)
addToCache(c, key, parsed) ==
    LET kept == IF Len(c) >= maxCacheSize THEN Tail(c) ELSE c
    IN Append(kept, [key |-> key, value |-> parsed])

\* the parsed-expression object; evaluate is "compiled" (delegates to
\* compiled.evaluate, NaN on a throw) or "nan" (() => NaN)
ParsedValid(text, variables) ==
    [expression |-> text, variables |-> variables,
     usedVariables |-> extractVariables(text),
     isValid |-> TRUE, error |-> NULL, evaluate |-> "compiled"]

ParsedInvalid(text, variables) ==
    [expression |-> text, variables |-> variables, usedVariables |-> <<>>,
     isValid |-> FALSE, error |-> SyntaxError, evaluate |-> "nan"]

NoParsed == [expression |-> <<>>, variables |-> <<>>, usedVariables |-> <<>>,
             isValid |-> FALSE, error |-> NULL, evaluate |-> "none"]

\* variables = null (the default argument)
VarsNotGiven == <<NULL>>

\* a parse that stores the result of a failed compilation as well
parseStoreInvalid(c, hits, misses, text, variablesArg) ==
    IF text = <<>>
    THEN [threw |-> TRUE, msg |-> ShapeError, value |-> NoParsed,
          cache |-> c, cacheHits |-> hits, cacheMisses |-> misses]
    ELSE LET dv == IF variablesArg = VarsNotGiven
                   THEN detectVariables(text)
                   ELSE [threw |-> FALSE, msg |-> NULL, value |-> variablesArg]
         IN IF dv.threw
            THEN [threw |-> TRUE, msg |-> dv.msg, value |-> NoParsed,
                  cache |-> c, cacheHits |-> hits, cacheMisses |-> misses]
            ELSE LET variables == dv.value
                     key == cacheKey(text, variables)
                     idx == cacheIndex(c, key)
                     parsed == IF mathParseOk(text) THEN ParsedValid(text, variables)
                               ELSE ParsedInvalid(text, variables)
                 IN IF idx # 0
                    THEN [threw |-> FALSE, msg |-> NULL, value |-> c[idx].value,
                          cache |-> c, cacheHits |-> hits + 1, cacheMisses |-> misses]
                    ELSE [threw |-> FALSE, msg |-> NULL, value |-> parsed,
                          cache |-> addToCache(c, key, parsed),
                          cacheHits |-> hits, cacheMisses |-> misses + 1]

\* a parse whose hit makes the entry the most recent one (true LRU)
parsePromote(c, hits, misses, text, variablesArg) ==
    IF text = <<>>
    THEN [threw |-> TRUE, msg |-> ShapeError, value |-> NoParsed,
          cache |-> c, cacheHits |-> hits, cacheMisses |-> misses]
    ELSE LET dv == IF variablesArg = VarsNotGiven
                   THEN detectVariables(text)
                   ELSE [threw |-> FALSE, msg |-> NULL, value |-> variablesArg]
         IN IF dv.threw
            THEN [threw |-> TRUE, msg |-> dv.msg, value |-> NoParsed,
                  cache |-> c, cacheHits |-> hits, cacheMisses |-> misses]
            ELSE LET variables == dv.value
                     key == cacheKey(text, variables)
                     idx == cacheIndex(c, key)
                 IN IF idx # 0
                    THEN [threw |-> FALSE, msg |-> NULL, value |-> c[idx].value,
                          cache |-> Append(SelectSeq(c, LAMBDA e : e.key # key), c[idx]),
                          cacheHits |-> hits + 1, cacheMisses |-> misses]
                    ELSE IF mathParseOk(text)
                    THEN [threw |-> FALSE, msg |-> NULL,
                          value |-> ParsedValid(text, variables),
                          cache |-> addToCache(c, key, ParsedValid(text, variables)),
                          cacheHits |-> hits, cacheMisses |-> misses + 1]
                    ELSE [threw |-> FALSE, msg |-> NULL,
                          value |-> ParsedInvalid(text, variables),
                          cache |-> c, cacheHits |-> hits, cacheMisses |-> misses + 1]

\* parse(expression, variables = null) on a parser whose state is (c, hits, misses):
\* [threw, msg, value, cache, cacheHits, cacheMisses]
parse(c, hits, misses, text, variablesArg) ==
    IF text = <<>>
    THEN [threw |-> TRUE, msg |-> ShapeError, value |-> NoParsed,
          cache |-> c, cacheHits |-> hits, cacheMisses |-> misses]
    ELSE LET dv == IF variablesArg = VarsNotGiven
                   THEN detectVariables(text)
                   ELSE [threw |-> FALSE, msg |-> NULL, value |-> variablesArg]
         IN IF dv.threw
            THEN [threw |-> TRUE, msg |-> dv.msg, value |-> NoParsed,
                  cache |-> c, cacheHits |-> hits, cacheMisses |-> misses]
            ELSE LET variables == dv.value
                     key == cacheKey(text, variables)
                     idx == cacheIndex(c, key)
                 IN IF idx # 0
                    THEN [threw |-> FALSE, msg |-> NULL, value |-> c[idx].value,
                          cache |-> c, cacheHits |-> hits + 1, cacheMisses |-> misses]
                    ELSE IF mathParseOk(text)
                    THEN [threw |-> FALSE, msg |-> NULL,
                          value |-> ParsedValid(text, variables),
                          cache |-> addToCache(c, key, ParsedValid(text, variables)),
                          cacheHits |-> hits, cacheMisses |-> misses + 1]
                    ELSE [threw |-> FALSE, msg |-> NULL,
                          value |-> ParsedInvalid(text, variables),
                          cache |-> c, cacheHits |-> hits, cacheMisses |-> misses + 1]

\* parsed.evaluate(scope): [nan, v]
parsedEvaluate(parsed, scope) ==
    IF parsed.evaluate = "compiled"
    THEN LET r == compiledEvaluate(parsed.expression, scope)
         IN IF r.thr THEN [nan |-> TRUE, v |-> 0] ELSE [nan |-> FALSE, v |-> r.v]
    ELSE [nan |-> TRUE, v |-> 0]

(***************************************************************************)
(* FunctionEvaluator                                                       *)
(***************************************************************************)
\* arguments of setExpression: a string, a parsed expression, anything else
StringArg(text) == [kind |-> "string", text |-> text, parsed |-> NoParsed]

ParsedArg(parsed) == [kind |-> "parsed", text |-> <<>>, parsed |-> parsed]

OtherArg == [kind |-> "other", text |-> <<>>, parsed |-> NoParsed]

\* arguments of evaluateAt: a number or an object with variable values
NumberPoint(n) == [kind |-> "number", v |-> n, scope |-> EmptyScope]

ScopePoint(scope) == [kind |-> "object", v |-> 0, scope |-> scope]

\* setExpression(expression, variables = null) on an evaluator whose field is
\* pe and whose parser is (c, hits, misses):
\* [threw, parsedExpression, cache, cacheHits, cacheMisses]
setExpression(pe, c, hits, misses, expression, variables) ==
    IF expression.kind = "string"
    THEN LET r == parse(c, hits, misses, expression.text, variables)
         IN [threw |-> r.threw,
             parsedExpression |-> IF r.threw THEN pe ELSE r.value,
             cache |-> r.cache, cacheHits |-> r.cacheHits, cacheMisses |-> r.cacheMisses]
    ELSE IF expression.kind = "parsed"
    THEN [threw |-> FALSE, parsedExpression |-> expression.parsed,
          cache |-> c, cacheHits |-> hits, cacheMisses |-> misses]
    ELSE [threw |-> TRUE, parsedExpression |-> pe,
          cache |-> c, cacheHits |-> hits, cacheMisses |-> misses]

\* evaluateAt(point): [threw, nan, v]
evaluateAt(pe, point) ==
    IF pe = NoParsed THEN [threw |-> TRUE, nan |-> FALSE, v |-> 0]
    ELSE LET scope == IF point.kind = "number"
                      THEN [s \in {"x"} |-> point.v]
                      ELSE point.scope
             result == parsedEvaluate(pe, scope)
         IN IF result.nan THEN [threw |-> FALSE, nan |-> TRUE, v |-> 0]
            ELSE [threw |-> FALSE, nan |-> FALSE, v |-> result.v]

(***************************************************************************)
(* expression-detector.js                                                  *)
(***************************************************************************)
\* isSingleVariable(expression): [isVariable, varName]
isSingleVariable(text) ==
    IF text = <<>> \/ ~mathParseOk(text) THEN [isVariable |-> FALSE, varName |-> NULL]
    ELSE IF nodeType(text) = "SymbolNode"
              /\ text[1] \notin {"x", "y"} /\ text[1] \notin ConstantNames
         THEN [isVariable |-> TRUE, varName |-> text[1]]
         ELSE [isVariable |-> FALSE, varName |-> NULL]

NotAssignment == [isAssignment |-> FALSE, varName |-> NULL, value |-> 0]

\* isAssignmentExpression(expression): [isAssignment, varName, value]
isAssignmentExpression(text) ==
    IF text = <<>> \/ ~mathParseOk(text) THEN NotAssignment
    ELSE IF nodeType(text) # "AssignmentNode" THEN NotAssignment
    ELSE IF text[1] \in {"x", "y"} THEN NotAssignment
    ELSE LET rhs == SubSeq(text, 3, Len(text))
             r == compiledEvaluate(rhs, EmptyScope)
         IN IF r.thr THEN NotAssignment
            ELSE [isAssignment |-> TRUE, varName |-> text[1], value |-> r.v]

(***************************************************************************)
(* The world the handlers run in: one record holding every object's        *)
(* fields, threaded through the calls in program order.                    *)
(***************************************************************************)
World ==
    [functions |-> functions, controls |-> controls, stViewport |-> stViewport,
     heap |-> heap, engViewport |-> engViewport, isDragging |-> isDragging,
     frameId |-> frameId, parameterDetectionTimeout |-> parameterDetectionTimeout,
     saveTimeout |-> saveTimeout, pendingErrorUpdates |-> pendingErrorUpdates,
     unsubscribers |-> unsubscribers, resizeListener |-> resizeListener,
     canvasListeners |-> canvasListeners, rafQueue |-> rafQueue, timers |-> timers,
     renderedItems |-> renderedItems, focus |-> focus, trace |-> <<>>,
     sinceExpr |-> sinceExpr, destroyed |-> destroyed]

Commit(w) ==
    /\ functions' = w.functions
    /\ controls' = w.controls
    /\ stViewport' = w.stViewport
    /\ heap' = [r \in DOMAIN w.heap |->
                    IF r \in {w.engViewport, w.stViewport} THEN w.heap[r] ELSE DefaultViewport]
    /\ engViewport' = w.engViewport
    /\ isDragging' = w.isDragging
    /\ frameId' = w.frameId
    /\ parameterDetectionTimeout' = w.parameterDetectionTimeout
    /\ saveTimeout' = w.saveTimeout
    /\ pendingErrorUpdates' = w.pendingErrorUpdates
    /\ unsubscribers' = w.unsubscribers
    /\ resizeListener' = w.resizeListener
    /\ canvasListeners' = w.canvasListeners
    /\ rafQueue' = w.rafQueue
    /\ timers' = w.timers
    /\ renderedItems' = w.renderedItems
    /\ focus' = w.focus
    /\ trace' = w.trace
    /\ sinceExpr' = w.sinceExpr
    /\ destroyed' = w.destroyed

Log(w, k, p) == [w EXCEPT !.trace = Append(@, [k |-> k, p |-> p])]

\* smallest handle that is not pending, that nobody still holds and that is not
\* the handle of the callback being run (the host never hands that one out again)
Smallest(S) == CHOOSE n \in S : \A m \in S : n <= m

freshFrameId(w) ==
    Smallest({n \in 1..(Cardinality(w.rafQueue) + 3) :
                 /\ n \notin w.rafQueue \cup {w.frameId}
                 /\ \A i \in 1..Len(w.trace) : w.trace[i] # [k |-> "frame", p |-> ToString(n)]})

freshTimerId(w) ==
    Smallest((1..(Cardinality(w.timers) + 3))
             \ ({t.id : t \in w.timers} \cup {w.parameterDetectionTimeout, w.saveTimeout}))

\* clearTimeout(id): cancels the pending timer with this handle, if there is one
clearTimeout(w, id) ==
    IF \E t \in w.timers : t.id = id
    THEN Log([w EXCEPT !.timers = {t \in @ : t.id # id}],
             "cancel", (CHOOSE t \in w.timers : t.id = id).kind)
    ELSE w

(***************************************************************************)
(* GraphEngine: frame coalescing and debounces                             *)
(***************************************************************************)
ParamDelay == 3

SaveDelay == 5

\* requestRender()
requestRenderNoGuard(w) ==
    LET id == freshFrameId(w)
    IN Log([w EXCEPT !.frameId = id, !.rafQueue = @ \cup {id}], "raf", "render")

requestRender(w) ==
    IF w.frameId = 0
    THEN LET id == freshFrameId(w)
         IN Log([w EXCEPT !.frameId = id, !.rafQueue = @ \cup {id}], "raf", "render")
    ELSE w

\* scheduleParameterDetection()
scheduleParameterDetectionNoClear(w) ==
    LET id == freshTimerId(w)
    IN Log([w EXCEPT !.timers = @ \cup {[id |-> id, kind |-> "param", remaining |-> ParamDelay]},
                     !.parameterDetectionTimeout = id], "setTimeout", "param")

scheduleParameterDetection(w) ==
    LET w1 == IF w.parameterDetectionTimeout # 0
              THEN clearTimeout(w, w.parameterDetectionTimeout)
              ELSE w
        id == freshTimerId(w)
    IN Log([w1 EXCEPT !.timers = @ \cup {[id |-> id, kind |-> "param", remaining |-> ParamDelay]},
                      !.parameterDetectionTimeout = id], "setTimeout", "param")

\* a save timer started without cancelling the pending one
debounceSaveViewportNoClear(w) ==
    LET id == freshTimerId(w)
    IN Log([w EXCEPT !.timers = @ \cup {[id |-> id, kind |-> "save", remaining |-> SaveDelay]},
                     !.saveTimeout = id], "setTimeout", "save")

\* debounceSaveViewport()
debounceSaveViewport(w) ==
    LET w1 == IF w.saveTimeout # 0 THEN clearTimeout(w, w.saveTimeout) ELSE w
        id == freshTimerId(w)
    IN Log([w1 EXCEPT !.timers = @ \cup {[id |-> id, kind |-> "save", remaining |-> SaveDelay]},
                      !.saveTimeout = id], "setTimeout", "save")

(***************************************************************************)
(* EventBus.publish as seen by the registered listeners                    *)
(***************************************************************************)
\* the engine's listeners of init(), by event name; data is [path, value]
engineListener(w, eventName, data) ==
    IF eventName = "state:changed"
    THEN IF data.path = "viewport"
         THEN requestRender([w EXCEPT !.engViewport = data.value])
         ELSE w
    ELSE IF eventName = "expression:updated"
    THEN scheduleParameterDetection(requestRender(w))
    ELSE IF eventName = "controls:updated" THEN requestRender(w)
    ELSE IF eventName = "state:changed:functions" THEN requestRender(w)
    ELSE w

\* publish(eventName, data)
publish(w, eventName, data) ==
    LET w1 == Log(w, "publish", eventName)
    IN IF eventName \in w1.unsubscribers
       THEN LET w2 == engineListener(w1, eventName, data)
            IN IF eventName = "expression:updated" THEN [w2 EXCEPT !.sinceExpr = 0] ELSE w2
       ELSE w1

PathEvent(path) ==
    CASE path = "functions" -> "state:changed:functions"
      [] path = "controls" -> "state:changed:controls"
      [] path = "viewport" -> "state:changed:viewport"
      [] OTHER -> "state:changed:other"

NoData == [path |-> "none", value |-> 0]

(***************************************************************************)
(* StateManager.set and the ExpressionList that subscribes to 'functions'  *)
(***************************************************************************)
Truthy(error) == error \notin {"undefined", NULL}

\* functions.findIndex(f => f.id === id), 0 for -1
findIndex(F, id) ==
    IF \E i \in 1..Len(F) : F[i].id = id
    THEN Smallest({i \in 1..Len(F) : F[i].id = id})
    ELSE 0

\* Object.keys(controls), in a fixed order of the names
KeyOrder == <<"a", "b", "x", "y">>

controlKeys(C) == SelectSeq(KeyOrder, LAMBDA k : k \in DOMAIN C)

NoItem == [slider |-> FALSE, varName |-> NULL]

\* `${varName} = ${value}`
NumberToken(v) == IF v = 1 THEN "1" ELSE "2"

assignmentText(varName, v) == <<varName, "=", NumberToken(v)>>

RECURSIVE set(_, _, _, _)
RECURSIVE listRender(_, _, _)
RECURSIVE reconcileSlider(_, _)
RECURSIVE updateExpression(_, _, _)

\* StateManager.set('controls.<name>', value, { silent: true })
setControlSilent(w, name, value) ==
    IF name \in DOMAIN w.controls /\ w.controls[name] = value
    THEN w
    ELSE Log([w EXCEPT !.controls = [k \in DOMAIN @ \cup {name} |->
                                        IF k = name THEN value ELSE @[k]]],
             "set", "controls.name")

\* StateManager.set(path, value) for the top-level paths, whose values are
\* objects (always counted as changed); then the events and the path subscribers
set(w, path, value, silent) ==
    LET w1 == Log(CASE path = "functions" -> [w EXCEPT !.functions = value]
                    [] path = "controls" -> [w EXCEPT !.controls = value]
                    [] path = "viewport" -> [w EXCEPT !.stViewport = value],
                  "set", path)
        data == [path |-> path, value |-> IF path = "viewport" THEN value ELSE 0]
    IN IF silent THEN w1
       ELSE LET w2 == publish(w1, PathEvent(path), data)
                w3 == publish(w2, "state:changed", data)
            IN IF path = "functions" THEN listRender(w3, value, 1) ELSE w3

\* ExpressionList.createSliderForAssignment(func, item, varName, value)
createSliderForAssignment(w, id, varName, value) ==
    LET w1 == [w EXCEPT !.renderedItems[id] = [slider |-> TRUE, varName |-> varName]]
    IN setControlSilent(w1, varName, value)

\* ExpressionList.reconcileSlider(func, item), handleAutoConversion included
reconcileSlider(w, func) ==
    LET item == w.renderedItems[func.id]
        assignment == isAssignmentExpression(func.expression)
        singleVar == isSingleVariable(func.expression)
    IN IF singleVar.isVariable /\ ~item.slider /\ w.focus # func.id
       THEN updateExpression(w, func.id, assignmentText(singleVar.varName, 1))
       ELSE IF assignment.isAssignment /\ ~item.slider
       THEN createSliderForAssignment(w, func.id, assignment.varName, assignment.value)
       ELSE IF ~assignment.isAssignment /\ ~singleVar.isVariable /\ item.slider
       THEN [w EXCEPT !.renderedItems[func.id] = NoItem]
       ELSE w

\* ExpressionList.render(functions): orphans removed on entry (i = 1), then
\* createItem / updateItem for functions[i..] in order
listRender(w, F, i) ==
    LET ids == {F[j].id : j \in 1..Len(F)}
        w1 == IF i = 1
              THEN [w EXCEPT !.renderedItems = [k \in DOMAIN @ \cap ids |-> @[k]]]
              ELSE w
    IN IF i > Len(F) THEN w1
       ELSE LET id == F[i].id
                w2 == IF id \in DOMAIN w1.renderedItems THEN w1
                      ELSE [w1 EXCEPT !.renderedItems =
                               [k \in DOMAIN @ \cup {id} |-> IF k = id THEN NoItem ELSE @[k]]]
            IN listRender(reconcileSlider(w2, F[i]), F, i + 1)

\* new ExpressionParser().parse(newExpression, ['x', ...Object.keys(controls)])
validationError(w, text) ==
    IF text = <<>> THEN NULL
    ELSE LET r == parse(<<>>, 0, 0, text, <<"x">> \o controlKeys(w.controls))
         IN IF r.threw THEN r.msg
            ELSE IF ~r.value.isValid THEN r.value.error ELSE NULL

\* ExpressionList.updateExpression(id, newExpression)
updateExpression(w, id, text) ==
    LET index == findIndex(w.functions, id)
    IN IF index = 0 THEN w
       ELSE LET F == [w.functions EXCEPT ![index] =
                        [@ EXCEPT !.expression = text, !.error = validationError(w, text)]]
                w1 == set(w, "functions", F, FALSE)
            IN publish(w1, "expression:updated", NoData)

(***************************************************************************)
(* GraphEngine: viewport                                                   *)
(***************************************************************************)
\* pixelToX(px), pixelToY(py) on a viewport object
\* JavaScript numbers have a finite range: a result beyond MaxNumber (the
\* model's Number.MAX_VALUE) is +-Infinity, Infinity - Infinity and
\* 0 * Infinity are NaN.  The three are encoded as integers out of range.
PosInfinity == MaxNumber + 1

NegInfinity == -(MaxNumber + 1)

NaN == MaxNumber + 2

IsFinite(a) == a >= -MaxNumber /\ a <= MaxNumber

\* the number an exact result n is stored as
Fl(n) == IF n > MaxNumber THEN PosInfinity ELSE IF n < -MaxNumber THEN NegInfinity ELSE n

\* a + b
FAdd(a, b) ==
    IF a = NaN \/ b = NaN THEN NaN
    ELSE IF IsFinite(a) /\ IsFinite(b) THEN Fl(a + b)
    ELSE IF IsFinite(a) THEN b
    ELSE IF IsFinite(b) THEN a
    ELSE IF a = b THEN a ELSE NaN

\* a - b
FSub(a, b) == FAdd(a, IF b = NaN THEN NaN ELSE -b)

\* a * (num / den) for integers num >= 0 and den > 0
FScale(a, num, den) ==
    IF a = NaN THEN NaN
    ELSE IF ~IsFinite(a) THEN (IF num = 0 THEN NaN ELSE a)
    ELSE Fl((a * num) \div den)

\* a < b
FLess(a, b) == a # NaN /\ b # NaN /\ a < b

pixelToX(v, px) == FAdd(v.xMin, FScale(FSub(v.xMax, v.xMin), px, CanvasWidth))

pixelToY(v, py) ==
    FAdd(v.yMin, FScale(FSub(v.yMax, v.yMin), CanvasHeight - py, CanvasHeight))

\* pan(dxPixels, dyPixels): mutates this.viewport in place
pan(w, dx, dy) ==
    LET v == w.heap[w.engViewport]
        dxUnits == FScale(FSub(v.xMax, v.xMin), dx, CanvasWidth)
        dyUnits == FScale(FSub(v.yMax, v.yMin), dy, CanvasHeight)
        nv == [xMin |-> FSub(v.xMin, dxUnits), xMax |-> FSub(v.xMax, dxUnits),
               yMin |-> FAdd(v.yMin, dyUnits), yMax |-> FAdd(v.yMax, dyUnits)]
    IN requestRender([w EXCEPT !.heap[w.engViewport] = nv])

\* zoomAtPoint(factor, px, py) with factor = num / den: mutates this.viewport in place
zoomAtPoint(w, num, den, px, py) ==
    LET v == w.heap[w.engViewport]
        xBefore == pixelToX(v, px)
        yBefore == pixelToY(v, py)
        newRangeX == FScale(FSub(v.xMax, v.xMin), den, num)
        newRangeY == FScale(FSub(v.yMax, v.yMin), den, num)
        nxMin == FSub(xBefore, FScale(newRangeX, px, CanvasWidth))
        nyMin == FSub(yBefore, FScale(newRangeY, CanvasHeight - py, CanvasHeight))
        nv == [xMin |-> nxMin, xMax |-> FAdd(nxMin, newRangeX),
               yMin |-> nyMin, yMax |-> FAdd(nyMin, newRangeY)]
    IN debounceSaveViewport(requestRender([w EXCEPT !.heap[w.engViewport] = nv]))

\* zoom(factor)
zoom(w, num, den) == zoomAtPoint(w, num, den, CanvasWidth \div 2, CanvasHeight \div 2)

\* saveViewportState(): StateManager.set('viewport', { ...this.viewport })
saveViewportState(w) ==
    LET ref == Smallest(ObjIds \ {w.engViewport, w.stViewport})
        w1 == [w EXCEPT !.heap[ref] = w.heap[w.engViewport]]
    IN set(Log(w1, "engine", "viewport"), "viewport", ref, FALSE)

(***************************************************************************)
(* GraphEngine: parameter detection and rendering                          *)
(***************************************************************************)
\* allVars of detectAndUpdateParameters: free symbols other than x and y, in
\* order of first appearance over functions[i..]
RECURSIVE collectVars(_, _, _)
collectVars(F, i, acc) ==
    IF i > Len(F) THEN acc
    ELSE LET vs == IF F[i].expression = <<>> THEN <<>>
                   ELSE SelectSeq(getAllVariables(F[i].expression),
                                  LAMBDA v : v # "x" /\ v # "y")
             RECURSIVE addAll(_, _)
             addAll(a, j) == IF j > Len(vs) THEN a ELSE addAll(AddUnique(a, vs[j]), j + 1)
         IN collectVars(F, i + 1, addAll(acc, 1))

SeqToSet(s) == {s[i] : i \in 1..Len(s)}

\* a scan that rebuilds controls from the symbols now in use
detectAndUpdateParametersPrune(w) ==
    LET allVars == SeqToSet(collectVars(w.functions, 1, <<>>))
        C == [k \in allVars |-> IF k \in DOMAIN w.controls THEN w.controls[k] ELSE 1]
    IN IF allVars # DOMAIN w.controls
       THEN set(Log(w, "engine", "controls"), "controls", C, FALSE)
       ELSE w

\* detectAndUpdateParameters()
detectAndUpdateParametersAlways(w) ==
    LET allVars == SeqToSet(collectVars(w.functions, 1, <<>>))
        missing == allVars \ DOMAIN w.controls
        C == [k \in DOMAIN w.controls \cup missing |->
                 IF k \in DOMAIN w.controls THEN w.controls[k] ELSE 1]
    IN set(Log(w, "engine", "controls"), "controls", C, FALSE)

detectAndUpdateParameters(w) ==
    LET allVars == SeqToSet(collectVars(w.functions, 1, <<>>))
        missing == allVars \ DOMAIN w.controls
        C == [k \in DOMAIN w.controls \cup missing |->
                 IF k \in DOMAIN w.controls THEN w.controls[k] ELSE 1]
    IN IF missing # {} THEN set(Log(w, "engine", "controls"), "controls", C, FALSE) ELSE w

\* Map.set(id, error) on the pending map
mapSet(m, id, error) ==
    IF \E i \in 1..Len(m) : m[i].id = id
    THEN [i \in 1..Len(m) |-> IF m[i].id = id THEN [id |-> id, error |-> error] ELSE m[i]]
    ELSE Append(m, [id |-> id, error |-> error])

\* number of pixel columns 0..width at which evaluateAt(scope) is a number
finiteSamples(w, parsed, C) ==
    Cardinality({px \in 0..CanvasWidth :
        LET x == pixelToX(w.heap[w.engViewport], px)
            scope == [k \in DOMAIN C \cup {"x"} |-> IF k = "x" THEN x ELSE C[k]]
        IN ~parsedEvaluate(parsed, scope).nan})

\* drawFunction(func, controls)
drawFunctionImmediate(w, func, C) ==
    LET n == finiteSamples(w, parse(<<>>, 0, 0, func.expression, <<"x">>).value, C)
        w1 == Log(w, IF n > 0 THEN "stroke" ELSE "stroke-empty", ToString(func.id))
        index == findIndex(w1.functions, func.id)
    IN IF Truthy(func.error) /\ index # 0
       THEN set(Log(w1, "engine", "functions"), "functions",
                [w1.functions EXCEPT ![index].error = NULL], FALSE)
       ELSE w1

drawFunction(w, func, C) ==
    LET r == parse(<<>>, 0, 0, func.expression, <<"x">> \o controlKeys(C))
    IN IF r.threw
       THEN [w EXCEPT !.pendingErrorUpdates = mapSet(@, func.id, r.msg)]
       ELSE LET n == finiteSamples(w, r.value, C)
                w1 == Log(w, IF n > 0 THEN "stroke" ELSE "stroke-empty", ToString(func.id))
            IN IF Truthy(func.error)
               THEN [w1 EXCEPT !.pendingErrorUpdates = mapSet(@, func.id, NULL)]
               ELSE w1

\* applyPendingErrorUpdates()
RECURSIVE applyErrors(_, _, _)
applyErrors(F, m, i) ==
    IF i > Len(m) THEN F
    ELSE LET index == findIndex(F, m[i].id)
         IN IF index # 0 /\ F[index].error # m[i].error
            THEN applyErrors([F EXCEPT ![index].error = m[i].error], m, i + 1)
            ELSE applyErrors(F, m, i + 1)

applyPendingErrorUpdatesAlways(w) ==
    LET F == applyErrors(w.functions, w.pendingErrorUpdates, 1)
        w1 == [w EXCEPT !.pendingErrorUpdates = <<>>]
    IN set(Log(w1, "engine", "functions"), "functions", F, FALSE)

applyPendingErrorUpdates(w) ==
    IF Len(w.pendingErrorUpdates) = 0 THEN w
    ELSE LET F == applyErrors(w.functions, w.pendingErrorUpdates, 1)
             w1 == [w EXCEPT !.pendingErrorUpdates = <<>>]
         IN IF F # w.functions
            THEN set(Log(w1, "engine", "functions"), "functions", F, FALSE)
            ELSE w1

\* a forEach that draws the hidden functions as well
RECURSIVE drawAllHidden(_, _, _, _)
drawAllHidden(w, F, C, i) ==
    IF i > Len(F) THEN w
    ELSE IF F[i].expression # <<>>
         THEN drawAllHidden(drawFunction(w, F[i], C), F, C, i + 1)
         ELSE drawAllHidden(w, F, C, i + 1)

\* the functions.forEach of render()
RECURSIVE drawAll(_, _, _, _)
drawAll(w, F, C, i) ==
    IF i > Len(F) THEN w
    ELSE IF F[i].visible /\ F[i].expression # <<>>
         THEN drawAll(drawFunction(w, F[i], C), F, C, i + 1)
         ELSE drawAll(w, F, C, i + 1)

\* render()
render(w) ==
    LET w1 == Log(Log(Log([w EXCEPT !.frameId = 0], "raster", "clear"),
                      "raster", "grid"), "raster", "axes")
        w2 == drawAll(w1, w1.functions, w1.controls, 1)
    IN applyPendingErrorUpdates(w2)

\* destroy()
destroy(w) ==
    LET w1 == [w EXCEPT !.unsubscribers = {}, !.resizeListener = FALSE]
        w2 == IF w1.parameterDetectionTimeout # 0
              THEN [clearTimeout(w1, w1.parameterDetectionTimeout)
                       EXCEPT !.parameterDetectionTimeout = 0]
              ELSE w1
        w3 == IF w2.saveTimeout # 0
              THEN [clearTimeout(w2, w2.saveTimeout) EXCEPT !.saveTimeout = 0]
              ELSE w2
        w4 == IF w3.frameId # 0
              THEN [w3 EXCEPT !.rafQueue = @ \ {w3.frameId}, !.frameId = 0]
              ELSE w3
    IN [w4 EXCEPT !.pendingErrorUpdates = <<>>, !.destroyed = TRUE]

\* onResize()
onResize(w) == requestRender(w)

EngineEvents == {"state:changed", "expression:updated", "controls:updated",
                 "state:changed:functions"}

\* init(), setupInteractions() included
engineInit(w) ==
    LET w1 == onResize(w)
        w2 == [w1 EXCEPT !.resizeListener = TRUE, !.canvasListeners = TRUE,
                         !.unsubscribers = EngineEvents]
        w3 == IF w2.stViewport # 0
              THEN [w2 EXCEPT !.heap[w2.engViewport] = w2.heap[w2.stViewport]]
              ELSE w2
    IN requestRender(detectAndUpdateParameters(w3))

(***************************************************************************)
(* Values of the state tree.  A value is a map from the paths below it to  *)
(* the kind of the node there: "obj", "arr", "null", "NaN", "undefined",   *)
(* a number "n:.." or a string "s:..".  A primitive has the root only.     *)
(***************************************************************************)
Prim(kind) == [p \in {<<>>} |-> kind]

Undefined == Prim("undefined")

EmptyObject == Prim("obj")

KindOf(v) == v[<<>>]

\* typeof v === 'object' (true of null as well)
TypeofObject(v) == KindOf(v) \in {"obj", "arr", "null"}

IsPrefix(a, p) == Len(a) <= Len(p) /\ SubSeq(p, 1, Len(a)) = a

SubTree(t, path) ==
    LET below == {p \in DOMAIN t : IsPrefix(path, p)}
    IN [q \in {SubSeq(p, Len(path) + 1, Len(p)) : p \in below} |-> t[path \o q]]

\* t with the value at path replaced by v, missing intermediate objects created
Graft(t, path, v) ==
    LET kept == {p \in DOMAIN t : ~IsPrefix(path, p)}
        made == {SubSeq(path, 1, i) : i \in 0..(Len(path) - 1)} \ DOMAIN t
        put  == {path \o q : q \in DOMAIN v}
    IN [p \in kept \cup made \cup put |->
           IF p \in put THEN v[SubSeq(p, Len(path) + 1, Len(p))]
           ELSE IF p \in made THEN "obj"
           ELSE t[p]]

\* own enumerable keys that an object spread copies (the index keys of a
\* string are not modelled: no merge is made onto a string)
OwnKeys(v) ==
    IF KindOf(v) \in {"obj", "arr"} THEN {p[1] : p \in DOMAIN v \ {<<>>}} ELSE {}

\* { ...old, ...value }
Spread(old, value) ==
    LET fromValue == {p \in DOMAIN value : p # <<>> /\ p[1] \in OwnKeys(value)}
        fromOld == {p \in DOMAIN old : p # <<>> /\ p[1] \in OwnKeys(old) \ OwnKeys(value)}
    IN [p \in {<<>>} \cup fromValue \cup fromOld |->
           IF p = <<>> THEN "obj" ELSE IF p \in fromValue THEN value[p] ELSE old[p]]

\* this.state after the constructor
ConstructedState ==
    Graft(Graft(Graft(Graft(Graft(Graft(EmptyObject,
        <<"config">>, Prim("null")),
        <<"controls">>, EmptyObject),
        <<"functions">>, Prim("arr")),
        <<"visualElements">>, Prim("arr")),
        <<"status">>, Prim("s:initializing")),
        <<"errors">>, Prim("arr"))

\* StateManager.get(path) on the tree t
StateManager_get(t, path) ==
    IF path = <<>> THEN t
    ELSE IF path \in DOMAIN t THEN SubTree(t, path)
    ELSE Undefined

\* oldValue === value && typeof value !== 'object'
Unchanged(oldValue, value) ==
    /\ ~TypeofObject(value)
    /\ KindOf(oldValue) = KindOf(value)
    /\ KindOf(value) # "NaN"

\* the walk of set() reaches a node that is not an object: `key in current`
\* or the assignment to current[finalKey] throws a TypeError
WalkThrows(t, path) ==
    \E i \in 1..(Len(path) - 1) :
        /\ SubSeq(path, 1, i) \in DOMAIN t
        /\ t[SubSeq(path, 1, i)] \notin {"obj", "arr"}

\* options.merge && typeof value === 'object' && !Array.isArray(value)
MergeTaken(value, merge) == merge /\ TypeofObject(value) /\ KindOf(value) # "arr"

\* the tree after the assignment to current[finalKey]
Assigned(t, path, value, merge) ==
    IF MergeTaken(value, merge)
    THEN Graft(t, path, Spread(StateManager_get(t, path), value))
    ELSE Graft(t, path, value)

StateManager_maxHistory == 50

EventBus_maxHistory == 100

(***************************************************************************)
(* The EventBus and the StateManager as objects: one record holding the    *)
(* fields of both, threaded through the calls in program order.  Event     *)
(* names and paths are sequences of their segments.                        *)
(***************************************************************************)
Core ==
    [subscribers |-> subscribers, eventHistory |-> eventHistory, state |-> state,
     stateSubscribers |-> stateSubscribers, history |-> history,
     registry |-> registry, log |-> <<>>, depth |-> 0, threw |-> FALSE]

MapPut(m, key, v) == [x \in DOMAIN m \cup {key} |-> IF x = key THEN v ELSE m[x]]

MapDelete(m, key) == [x \in DOMAIN m \ {key} |-> m[x]]

\* this.subscribers.get(name), <<>> when there is none
MapGet(m, key) == IF key \in DOMAIN m THEN m[key] ELSE <<>>

\* subscribers.findIndex(sub => sub.id === subscriberId), 0 for -1
indexOfId(list, id) ==
    IF \E i \in 1..Len(list) : list[i].id = id
    THEN CHOOSE i \in 1..Len(list) : list[i].id = id /\ \A j \in 1..(i - 1) : list[j].id # id
    ELSE 0

\* subscribers.splice(index, 1)
splice(list, index) == SubSeq(list, 1, index - 1) \o SubSeq(list, index + 1, Len(list))

\* the data handed to listeners: { path, value, oldValue } or the updates map
EventData(path, value, oldValue) ==
    [path |-> path, value |-> value, oldValue |-> oldValue, updates |-> <<>>]

NoPayload == EventData(<<>>, Undefined, Undefined)

\* one observed effect; seen and hist are what the listener finds in the
\* tree at data.path and the length of the change history when it runs
Effect(c, op, id, name, data) ==
    [op |-> op, id |-> id, name |-> name, data |-> data, depth |-> c.depth,
     seen |-> StateManager_get(c.state, data.path), hist |-> Len(c.history)]

Note(c, op, id, name, data) == [c EXCEPT !.log = Append(@, Effect(c, op, id, name, data))]

\* _generateId(): ids are taken to be distinct
generateId(c) == Len(c.registry) + 1

\* a history that keeps its oldest entries and refuses the new one when full
EventBus_addToHistoryKeepOldest(c, eventName, data) ==
    LET h == Append(c.eventHistory, [eventName |-> eventName, data |-> data])
    IN [c EXCEPT !.eventHistory = IF Len(h) > EventBus_maxHistory
                                  THEN SubSeq(h, 1, EventBus_maxHistory) ELSE h]

\* EventBus._addToHistory(eventName, data)
EventBus_addToHistory(c, eventName, data) ==
    LET h == Append(c.eventHistory, [eventName |-> eventName, data |-> data])
    IN [c EXCEPT !.eventHistory = IF Len(h) > EventBus_maxHistory THEN Tail(h) ELSE h]

\* EventBus.subscribe(eventName, callback, { once })
EventBus_subscribe(c, eventName, callback, once) ==
    LET id == generateId(c)
        subscriber == [id |-> id, callback |-> callback, once |-> once]
        c1 == [c EXCEPT !.subscribers =
                           MapPut(@, eventName, Append(MapGet(@, eventName), subscriber)),
                        !.registry = Append(@, [owner |-> "bus", name |-> eventName,
                                                callback |-> callback, once |-> once,
                                                calls |-> 0])]
    IN Note(c1, "subscribe", id, eventName, NoPayload)

\* EventBus.unsubscribe(eventName, subscriberId)
EventBus_unsubscribeFirst(c, eventName, subscriberId) ==
    IF eventName \notin DOMAIN c.subscribers THEN c
    ELSE LET list == c.subscribers[eventName]
             index == indexOfId(list, subscriberId)
             left == IF index # 0 THEN Tail(list) ELSE list
         IN [c EXCEPT !.subscribers =
                IF Len(left) = 0 THEN MapDelete(@, eventName) ELSE MapPut(@, eventName, left)]

EventBus_unsubscribe(c, eventName, subscriberId) ==
    IF eventName \notin DOMAIN c.subscribers THEN c
    ELSE LET list == c.subscribers[eventName]
             index == indexOfId(list, subscriberId)
             left == IF index # 0 THEN splice(list, index) ELSE list
         IN [c EXCEPT !.subscribers =
                IF Len(left) = 0 THEN MapDelete(@, eventName) ELSE MapPut(@, eventName, left)]

\* EventBus.unsubscribeAll(eventName)
EventBus_unsubscribeAll(c, eventName) ==
    [c EXCEPT !.subscribers = MapDelete(@, eventName)]

\* EventBus.clear()
EventBus_clear(c) == [c EXCEPT !.subscribers = [x \in {} |-> <<>>]]

\* What listeners do when called.  "rec" only returns, "throw" throws, "sub"
\* subscribes a new listener to the event being dispatched, "unsubNext"
\* calls the token of the listener registered after it, "repub" publishes
\* the event again unless it is itself running inside such a re-publish.
Callbacks == {"rec", "throw", "sub", "unsubNext", "repub"}

MaxDepth == 2

\* A "convert" callback is the expression list's boundRender reaching
\* handleAutoConversion: given a value it wants rewritten, it calls set() on
\* the same path with the rewritten value, from inside the notification.
Convertible(value) == KindOf(value) = "n:1"

Converted == Prim("arr")

RECURSIVE EventBus_publish(_, _, _)
RECURSIVE forEachSubscriber(_, _, _, _, _)
RECURSIVE StateManager_set(_, _, _, _, _)

\* subscriber.callback(data, eventName)
callListener(c, subscriber, eventName, data) ==
    LET c1 == Note([c EXCEPT !.registry[subscriber.id].calls = @ + 1],
                   "call", subscriber.id, eventName, data)
        live == MapGet(c1.subscribers, eventName)
        me == indexOfId(live, subscriber.id)
    IN CASE subscriber.callback = "throw" -> [c1 EXCEPT !.threw = TRUE]
         [] subscriber.callback = "sub" -> EventBus_subscribe(c1, eventName, "rec", FALSE)
         [] subscriber.callback = "unsubNext" ->
               IF me # 0 /\ me < Len(live)
               THEN EventBus_unsubscribe(c1, eventName, live[me + 1].id)
               ELSE c1
         [] subscriber.callback = "repub" ->
               IF c1.depth < MaxDepth THEN EventBus_publish(c1, eventName, data) ELSE c1
         [] subscriber.callback = "convert" ->
               IF Convertible(data.value)
               THEN StateManager_set(c1, data.path, Converted, FALSE, FALSE)
               ELSE c1
         [] OTHER -> c1

\* the body of the dispatch loop: try { callback; once removal } catch { log }
invokeNoCatch(c, subscriber, eventName, data) ==
    LET c1 == callListener(c, subscriber, eventName, data)
    IN IF c1.threw THEN c1
       ELSE IF subscriber.once THEN EventBus_unsubscribe(c1, eventName, subscriber.id)
       ELSE c1

invoke(c, subscriber, eventName, data) ==
    LET c1 == callListener(c, subscriber, eventName, data)
    IN IF c1.threw
       THEN Note([c1 EXCEPT !.threw = FALSE], "caught", subscriber.id, eventName, data)
       ELSE IF subscriber.once THEN EventBus_unsubscribe(c1, eventName, subscriber.id)
       ELSE c1

\* subscribersCopy.forEach(...), from position i on; an exception that
\* escapes the body ends the loop
forEachLive(c, subscribersCopy, i, eventName, data) ==
    IF i > Len(subscribersCopy) \/ c.threw THEN c
    ELSE forEachSubscriber(
             IF indexOfId(MapGet(c.subscribers, eventName), subscribersCopy[i].id) # 0
             THEN invoke(c, subscribersCopy[i], eventName, data)
             ELSE c,
             subscribersCopy, i + 1, eventName, data)

forEachSubscriber(c, subscribersCopy, i, eventName, data) ==
    IF i > Len(subscribersCopy) \/ c.threw THEN c
    ELSE forEachSubscriber(invoke(c, subscribersCopy[i], eventName, data),
                           subscribersCopy, i + 1, eventName, data)

\* EventBus.publish(eventName, data)
EventBus_publish(c, eventName, data) ==
    LET c1 == Note(EventBus_addToHistory(c, eventName, data),
                   "publish", 0, eventName, data)
        subscribersCopy == MapGet(c1.subscribers, eventName)
    IN IF Len(subscribersCopy) = 0 THEN c1
       ELSE [forEachSubscriber([c1 EXCEPT !.depth = @ + 1],
                               subscribersCopy, 1, eventName, data)
                EXCEPT !.depth = c.depth]

\* `state:changed:${path}`, 'state:changed', 'state:updated'
StateChangedAt(path) == <<"state:changed:">> \o path

StateChanged == <<"state:changed">>

StateUpdated == <<"state:updated">>

\* StateManager._addToHistory(path, oldValue, newValue)
StateManager_addToHistory(c, path, oldValue, newValue) ==
    LET h == Append(c.history, [path |-> path, oldValue |-> oldValue, newValue |-> newValue])
    IN [c EXCEPT !.history = IF Len(h) > StateManager_maxHistory THEN Tail(h) ELSE h]

\* callback(value, oldValue, path) of a path subscriber: "rec", "throw" or
\* "convert"
callSubscriber(c, subscriber, value, oldValue, path) ==
    LET c1 == Note([c EXCEPT !.registry[subscriber.id].calls = @ + 1],
                   "notify", subscriber.id, path, EventData(path, value, oldValue))
    IN IF subscriber.callback = "throw" THEN [c1 EXCEPT !.threw = TRUE]
       ELSE IF subscriber.callback = "convert" /\ Convertible(value)
       THEN StateManager_set(c1, path, Converted, FALSE, FALSE)
       ELSE c1

\* StateManager.subscribe(path, callback, { immediate })
StateManager_subscribe(c, path, callback, immediate) ==
    LET id == generateId(c)
        subscriber == [id |-> id, callback |-> callback]
        c1 == [c EXCEPT !.stateSubscribers =
                           MapPut(@, path, Append(MapGet(@, path), subscriber)),
                        !.registry = Append(@, [owner |-> "store", name |-> path,
                                                callback |-> callback, once |-> FALSE,
                                                calls |-> 0])]
        c2 == Note(c1, "subscribe", id, path, NoPayload)
    IN IF immediate
       THEN callSubscriber(c2, subscriber, StateManager_get(c2.state, path), Undefined, path)
       ELSE c2

\* StateManager._unsubscribe(path, subscriberId)
StateManager_unsubscribe(c, path, subscriberId) ==
    IF path \notin DOMAIN c.stateSubscribers THEN c
    ELSE LET list == c.stateSubscribers[path]
             index == indexOfId(list, subscriberId)
             left == IF index # 0 THEN splice(list, index) ELSE list
         IN [c EXCEPT !.stateSubscribers =
                IF Len(left) = 0 THEN MapDelete(@, path) ELSE MapPut(@, path, left)]

\* a forEach without the try/catch: the first exception ends the loop
RECURSIVE notifyEachNoCatch(_, _, _, _, _, _)
RECURSIVE notifyEach(_, _, _, _, _, _)
notifyEachNoCatch(c, list, i, value, oldValue, path) ==
    IF i > Len(list) THEN c
    ELSE LET c1 == callSubscriber(c, list[i], value, oldValue, path)
         IN IF c1.threw THEN c1
            ELSE notifyEachNoCatch(c1, list, i + 1, value, oldValue, path)

\* subscribers.forEach(subscriber => { try { callback } catch { log } })
notifyEach(c, list, i, value, oldValue, path) ==
    IF i > Len(list) THEN c
    ELSE LET c1 == callSubscriber(c, list[i], value, oldValue, path)
             c2 == IF c1.threw
                   THEN Note([c1 EXCEPT !.threw = FALSE], "caught", list[i].id, path,
                             EventData(path, value, oldValue))
                   ELSE c1
         IN notifyEach(c2, list, i + 1, value, oldValue, path)

\* a parent loop that hands the written value itself to the ancestors
RECURSIVE notifyParentsLeaf(_, _, _, _)
RECURSIVE notifyParents(_, _, _, _)
notifyParentsLeaf(c, path, i, value) ==
    IF i <= 0 THEN c
    ELSE LET parentPath == SubSeq(path, 1, i)
             c1 == IF parentPath \in DOMAIN c.stateSubscribers
                   THEN notifyEach(c, c.stateSubscribers[parentPath], 1,
                                   value, Undefined, parentPath)
                   ELSE c
         IN notifyParentsLeaf(c1, path, i - 1, value)

\* the parent loop of _notifySubscribers: for (i = pathParts.length - 1; i > 0; i--),
\* each ancestor's subscribers receive this.get(parentPath)
notifyParents(c, path, i, value) ==
    IF i <= 0 THEN c
    ELSE LET parentPath == SubSeq(path, 1, i)
             c1 == IF parentPath \in DOMAIN c.stateSubscribers
                   THEN notifyEach(c, c.stateSubscribers[parentPath], 1,
                                   StateManager_get(c.state, parentPath), Undefined,
                                   parentPath)
                   ELSE c
         IN notifyParents(c1, path, i - 1, value)

\* StateManager._notifySubscribers(path, value, oldValue)
StateManager_notifyParentsFirst(c, path, value, oldValue) ==
    LET c1 == notifyParents(c, path, Len(path) - 1, value)
    IN IF path \in DOMAIN c1.stateSubscribers
       THEN notifyEach(c1, c1.stateSubscribers[path], 1, value, oldValue, path)
       ELSE c1

\* a notification that also reaches the subscribers of the child path 'a'
StateManager_notifyChildren(c, path, value, oldValue) ==
    LET c1 == IF path \in DOMAIN c.stateSubscribers
              THEN notifyEach(c, c.stateSubscribers[path], 1, value, oldValue, path)
              ELSE c
        c2 == notifyParents(c1, path, Len(path) - 1, value)
        child == Append(path, "a")
    IN IF child \in DOMAIN c2.stateSubscribers
       THEN notifyEach(c2, c2.stateSubscribers[child], 1,
                       StateManager_get(c2.state, child), Undefined, child)
       ELSE c2

StateManager_notifySubscribers(c, path, value, oldValue) ==
    LET c1 == IF path \in DOMAIN c.stateSubscribers
              THEN notifyEach(c, c.stateSubscribers[path], 1, value, oldValue, path)
              ELSE c
    IN notifyParents(c1, path, Len(path) - 1, value)

\* StateManager.set(path, value, { silent, merge })
StateManager_set(c, path, value, silent, merge) ==
    LET oldValue == StateManager_get(c.state, path)
    IN IF Unchanged(oldValue, value) THEN c
       ELSE IF WalkThrows(c.state, path) THEN [c EXCEPT !.threw = TRUE]
       ELSE LET c1 == [c EXCEPT !.state = Assigned(@, path, value, merge)]
                c2 == Note(StateManager_addToHistory(c1, path, oldValue, value),
                           "write", 0, path, EventData(path, value, oldValue))
            IN IF silent THEN c2
               ELSE LET data == EventData(path, value, oldValue)
                        c3 == EventBus_publish(c2, StateChangedAt(path), data)
                        c4 == EventBus_publish(c3, StateChanged, data)
                    IN StateManager_notifySubscribers(c4, path, value, oldValue)

\* Object.entries(updates).forEach(([path, value]) => this.set(path, value, silent))
RECURSIVE setEach(_, _, _, _)
setEach(c, updates, i, merge) ==
    IF i > Len(updates) \/ c.threw THEN c
    ELSE setEach(StateManager_set(c, updates[i].path, updates[i].value, TRUE, merge),
                 updates, i + 1, merge)

\* StateManager.update(updates, { silent, merge })
StateManager_updateEach(c, updates, silent, merge) ==
    LET RECURSIVE each(_, _)
        each(d, i) ==
            IF i > Len(updates) \/ d.threw THEN d
            ELSE each(StateManager_set(d, updates[i].path, updates[i].value, silent, merge),
                      i + 1)
        c1 == each(c, 1)
    IN IF c1.threw \/ silent THEN c1
       ELSE EventBus_publish(c1, StateUpdated,
                             [NoPayload EXCEPT !.updates = updates])

StateManager_update(c, updates, silent, merge) ==
    LET c1 == setEach(c, updates, 1, merge)
    IN IF c1.threw \/ silent THEN c1
       ELSE EventBus_publish(c1, StateUpdated,
                             [NoPayload EXCEPT !.updates = updates])

\* a value is truthy: not undefined, null, NaN, 0 or ''
IsTruthy(v) == KindOf(v) \notin {"undefined", "null", "NaN", "n:0", "s:"}

\* { ...f, parsed: null, error: null }
SeededFunction(f) ==
    Spread(Spread(EmptyObject, f),
           Graft(Graft(EmptyObject, <<"parsed">>, Prim("null")), <<"error">>, Prim("null")))

\* config.functions.map(f => ({ ...f, parsed: null, error: null }))
RECURSIVE SeedEach(_, _, _)
SeedEach(t, list, keys) ==
    IF keys = {} THEN t
    ELSE LET k == CHOOSE k \in keys : TRUE
         IN SeedEach(Graft(t, <<k>>, SeededFunction(StateManager_get(list, <<k>>))),
                     list, keys \ {k})

SeededFunctions(list) == SeedEach(Prim("arr"), list, OwnKeys(list))

StateInitialized == <<"state:initialized">>

StateReset == <<"state:reset">>

\* StateManager.initialize(config), config an object
StateManager_initialize(c, config) ==
    LET t1 == Graft(Graft(c.state, <<"config">>, config), <<"status">>, Prim("s:ready"))
        graph == StateManager_get(config, <<"graph">>)
        t2 == IF IsTruthy(graph) THEN Graft(t1, <<"graph">>, Spread(EmptyObject, graph))
              ELSE t1
        list == StateManager_get(config, <<"functions">>)
        t3 == IF IsTruthy(list) THEN Graft(t2, <<"functions">>, SeededFunctions(list))
              ELSE t2
    IN EventBus_publish([c EXCEPT !.state = t3], StateInitialized,
                        EventData(<<>>, t3, Undefined))

\* this.state of reset()
ResetState ==
    Graft(Graft(Graft(Graft(Graft(EmptyObject,
        <<"config">>, Prim("null")),
        <<"controls">>, EmptyObject),
        <<"functions">>, Prim("arr")),
        <<"status">>, Prim("s:ready")),
        <<"errors">>, Prim("arr"))

\* a reset that never re-initializes
StateManager_resetBlank(c) ==
    EventBus_publish([c EXCEPT !.state = ResetState], StateReset,
                     EventData(<<>>, ResetState, Undefined))

\* StateManager.reset()
StateManager_reset(c) ==
    LET config == StateManager_get(c.state, <<"config">>)
        c1 == [c EXCEPT !.state = ResetState]
        c2 == IF IsTruthy(config) THEN StateManager_initialize(c1, config) ELSE c1
    IN EventBus_publish(c2, StateReset, EventData(<<>>, c2.state, Undefined))

\* the fields of both objects after construction
ConstructedCore ==
    [subscribers |-> [x \in {} |-> <<>>], eventHistory |-> <<>>,
     state |-> ConstructedState, stateSubscribers |-> [x \in {} |-> <<>>],
     history |-> <<>>, registry |-> <<>>, log |-> <<>>, depth |-> 0, threw |-> FALSE]

NoOp == [op |-> "none", name |-> <<>>, value |-> Undefined, silent |-> FALSE,
         merge |-> FALSE, id |-> 0, updates |-> <<>>, threw |-> FALSE]

CommitCore(c, op) ==
    /\ subscribers' = c.subscribers
    /\ eventHistory' = c.eventHistory
    /\ state' = c.state
    /\ stateSubscribers' = c.stateSubscribers
    /\ history' = c.history
    /\ registry' = c.registry
    /\ log' = c.log
    /\ lastOp' = [op EXCEPT !.threw = c.threw]

InitCore(c) ==
    /\ subscribers = c.subscribers
    /\ eventHistory = c.eventHistory
    /\ state = c.state
    /\ stateSubscribers = c.stateSubscribers
    /\ history = c.history
    /\ registry = c.registry
    /\ log = <<>>
    /\ lastOp = NoOp

(***************************************************************************)
(* Initial state: StateManager.initialize(config), new GraphEngine().init(),*)
(* new ExpressionList().init()                                             *)
(***************************************************************************)
FunctionIds == {1, 2}

ConfigFunction(id, text) == [id |-> id, expression |-> text, visible |-> TRUE, error |-> NULL]

\* configurations the application is started with
InitConfigs ==
    { <<>>,
      <<ConfigFunction(1, <<"x">>)>>,
      <<ConfigFunction(1, <<"x">>), ConfigFunction(2, <<"a", "*", "x">>)>> }

SinceCap == ParamDelay + 1

Constructed(config) ==
    [functions |-> config, controls |-> [k \in {} |-> 0], stViewport |-> 0,
     heap |-> [r \in ObjIds |-> DefaultViewport], engViewport |-> 1,
     isDragging |-> FALSE, frameId |-> 0, parameterDetectionTimeout |-> 0,
     saveTimeout |-> 0, pendingErrorUpdates |-> <<>>, unsubscribers |-> {},
     resizeListener |-> FALSE, canvasListeners |-> FALSE, rafQueue |-> {},
     timers |-> {}, renderedItems |-> [k \in {} |-> NoItem], focus |-> 0,
     trace |-> <<>>, sinceExpr |-> SinceCap, destroyed |-> FALSE]

Started(config) ==
    LET w == engineInit(Constructed(config))
    IN listRender(w, w.functions, 1)

InitWorld(w) ==
    /\ functions = w.functions
    /\ controls = w.controls
    /\ stViewport = w.stViewport
    /\ heap = w.heap
    /\ engViewport = w.engViewport
    /\ isDragging = w.isDragging
    /\ frameId = w.frameId
    /\ parameterDetectionTimeout = w.parameterDetectionTimeout
    /\ saveTimeout = w.saveTimeout
    /\ pendingErrorUpdates = w.pendingErrorUpdates
    /\ unsubscribers = w.unsubscribers
    /\ resizeListener = w.resizeListener
    /\ canvasListeners = w.canvasListeners
    /\ rafQueue = w.rafQueue
    /\ timers = w.timers
    /\ renderedItems = w.renderedItems
    /\ focus = w.focus
    /\ trace = w.trace
    /\ sinceExpr = w.sinceExpr
    /\ destroyed = w.destroyed

NoResult == [op |-> "none", text |-> <<>>, variables |-> <<>>, threw |-> FALSE,
             msg |-> NULL, value |-> NoParsed, list |-> <<>>]

NoEval == [op |-> "none", threw |-> FALSE, nan |-> FALSE, v |-> 0]

InitParser ==
    /\ parsedExpression = NoParsed
    /\ evalRes = NoEval
    /\ pText = <<>>
    /\ cache = <<>>
    /\ cacheHits = 0
    /\ cacheMisses = 0
    /\ pRes = NoResult

Init ==
    /\ InitParser
    /\ InitCore(ConstructedCore)
    /\ \E config \in InitConfigs : InitWorld(Started(config))
    /\ userSteps = 0

(***************************************************************************)
(* User inputs                                                             *)
(***************************************************************************)
\* texts the user types into an expression input
EditTexts == { <<>>, <<"x">>, <<"a", "*", "x">>, <<"x", "*">>, <<"a">>, <<"b", "=", "2">> }

UserStep == userSteps < MaxUserSteps /\ userSteps' = userSteps + 1

Blurred(w) == [w EXCEPT !.focus = 0]

\* addExpression(), with newId = `expr_${Date.now()}`
addExpression(w, newId) ==
    set(w, "functions",
        Append(w.functions, [id |-> newId, expression |-> <<>>, visible |-> TRUE,
                             error |-> "undefined"]), FALSE)

\* toggleVisibility(id)
toggleVisibility(w, id) ==
    LET index == findIndex(w.functions, id)
    IN IF index = 0 THEN w
       ELSE set(w, "functions", [w.functions EXCEPT ![index].visible = ~@], FALSE)

\* deleteExpression(id)
deleteExpression(w, id) ==
    set(w, "functions", SelectSeq(w.functions, LAMBDA f : f.id # id), FALSE)

\* onChange(newValue) of the slider created for item id
sliderOnChange(w, id, newValue) ==
    LET varName == w.renderedItems[id].varName
        w1 == setControlSilent(w, varName, newValue)
        w2 == updateExpression(w1, id, assignmentText(varName, newValue))
    IN publish(w2, "controls:updated", NoData)

AddExpression ==
    /\ UserStep
    /\ Len(functions) < MaxFuncs
    /\ \E newId \in FunctionIds : Commit(addExpression(Blurred(World), newId))
    /\ UNCHANGED <<parserVars, coreVars>>

EditExpression ==
    /\ UserStep
    /\ \E id \in DOMAIN renderedItems, text \in EditTexts :
          Commit(updateExpression([World EXCEPT !.focus = id], id, text))
    /\ UNCHANGED <<parserVars, coreVars>>

ToggleVisibility ==
    /\ UserStep
    /\ \E id \in DOMAIN renderedItems : Commit(toggleVisibility(Blurred(World), id))
    /\ UNCHANGED <<parserVars, coreVars>>

DeleteExpression ==
    /\ UserStep
    /\ \E id \in DOMAIN renderedItems : Commit(deleteExpression(Blurred(World), id))
    /\ UNCHANGED <<parserVars, coreVars>>

SliderChange ==
    /\ UserStep
    /\ \E id \in DOMAIN renderedItems, v \in {1, 2} :
          /\ renderedItems[id].slider
          /\ Commit(sliderOnChange(Blurred(World), id, v))
    /\ UNCHANGED <<parserVars, coreVars>>

\* canvas 'mousedown'
MouseDown ==
    /\ UserStep
    /\ canvasListeners
    /\ Commit([Blurred(World) EXCEPT !.isDragging = TRUE])
    /\ UNCHANGED <<parserVars, coreVars>>

\* mouse movements, as pixel deltas from the previous position
MouseDeltas == {<<1, 0>>, <<0, 1>>}

\* canvas 'mousemove'
MouseMove ==
    /\ UserStep
    /\ canvasListeners
    /\ \E d \in MouseDeltas :
          Commit(IF isDragging THEN pan(World, d[1], d[2]) ELSE World)
    /\ UNCHANGED <<parserVars, coreVars>>

\* canvas 'mouseup'
MouseUp ==
    /\ UserStep
    /\ canvasListeners
    /\ Commit(saveViewportState([World EXCEPT !.isDragging = FALSE]))
    /\ UNCHANGED <<parserVars, coreVars>>

\* canvas 'mouseleave'
MouseLeave ==
    /\ UserStep
    /\ canvasListeners
    /\ isDragging
    /\ Commit([World EXCEPT !.isDragging = FALSE])
    /\ UNCHANGED <<parserVars, coreVars>>

\* pointer positions of wheel events, in canvas pixels
WheelPoints == {<<1, 0>>}

\* canvas 'wheel': zoomFactor = e.deltaY > 0 ? 0.9 : 1.1
Wheel ==
    /\ UserStep
    /\ canvasListeners
    /\ \E num \in {9, 11}, pt \in WheelPoints :
          Commit(zoomAtPoint(World, num, 10, pt[1], pt[2]))
    /\ UNCHANGED <<parserVars, coreVars>>

\* btn-zoom-in / btn-zoom-out: graphEngine.zoom(1.2) / zoom(0.8)
ZoomButton ==
    /\ UserStep
    /\ \E num \in {12, 8} : Commit(zoom(Blurred(World), num, 10))
    /\ UNCHANGED <<parserVars, coreVars>>

\* window 'resize'
Resize ==
    /\ UserStep
    /\ resizeListener
    /\ Commit(onResize(World))
    /\ UNCHANGED <<parserVars, coreVars>>

Destroy ==
    /\ UserStep
    /\ ~destroyed
    /\ Commit(destroy(World))
    /\ UNCHANGED <<parserVars, coreVars>>

(***************************************************************************)
(* Navigation of the viewport alone, for as many steps as MaxNavSteps      *)
(***************************************************************************)
NavStep == userSteps < MaxNavSteps /\ userSteps' = userSteps + 1

NavMouseDown ==
    /\ NavStep
    /\ Commit([Blurred(World) EXCEPT !.isDragging = TRUE])
    /\ UNCHANGED <<parserVars, coreVars>>

NavMouseMove ==
    /\ NavStep
    /\ \E d \in MouseDeltas :
          Commit(IF isDragging THEN pan(World, d[1], d[2]) ELSE World)
    /\ UNCHANGED <<parserVars, coreVars>>

NavWheel ==
    /\ NavStep
    /\ \E num \in {9, 11}, pt \in WheelPoints :
          Commit(zoomAtPoint(World, num, 10, pt[1], pt[2]))
    /\ UNCHANGED <<parserVars, coreVars>>

NavZoomButton ==
    /\ NavStep
    /\ \E num \in {12, 8} : Commit(zoom(Blurred(World), num, 10))
    /\ UNCHANGED <<parserVars, coreVars>>

NavResize ==
    /\ NavStep
    /\ Commit(onResize(World))
    /\ UNCHANGED <<parserVars, coreVars>>

InitViewport ==
    /\ InitParser
    /\ InitCore(ConstructedCore)
    /\ InitWorld(Started(<<>>))
    /\ userSteps = 0

NextViewport ==
    \/ NavMouseDown
    \/ NavMouseMove
    \/ NavWheel
    \/ NavZoomButton
    \/ NavResize

SpecViewport == InitViewport /\ [][NextViewport]_vars

(***************************************************************************)
(* The host's turn: frame callbacks and timers                             *)
(***************************************************************************)
\* the frame callback boundRender runs
Frame ==
    /\ \E id \in rafQueue :
          Commit(render(Log([World EXCEPT !.rafQueue = @ \ {id}], "frame", ToString(id))))
    /\ UNCHANGED <<parserVars, coreVars, userSteps>>

\* a timer whose delay has elapsed runs its callback
TimerFire ==
    /\ \E t \in timers :
          /\ t.remaining = 0
          /\ LET w == Log([World EXCEPT !.timers = @ \ {t}], "timer", t.kind)
             IN Commit(IF t.kind = "param" THEN detectAndUpdateParameters(w)
                       ELSE saveViewportState(w))
    /\ UNCHANGED <<parserVars, coreVars, userSteps>>

\* 100 ms pass
Tick ==
    /\ timers # {}
    /\ \A t \in timers : t.remaining > 0
    /\ timers' = {[t EXCEPT !.remaining = @ - 1] : t \in timers}
    /\ sinceExpr' = IF sinceExpr < SinceCap THEN sinceExpr + 1 ELSE sinceExpr
    /\ trace' = <<>>
    /\ UNCHANGED <<parserVars, coreVars, storeVars, engineVars, rafQueue, listVars, destroyed, userSteps>>

Next ==
    \/ AddExpression
    \/ EditExpression
    \/ ToggleVisibility
    \/ DeleteExpression
    \/ SliderChange
    \/ MouseDown
    \/ MouseMove
    \/ MouseUp
    \/ MouseLeave
    \/ Wheel
    \/ ZoomButton
    \/ Resize
    \/ Destroy
    \/ Frame
    \/ TimerFire
    \/ Tick

Spec == Init /\ [][Next]_vars

(***************************************************************************)
(* Calls on an ExpressionParser                                            *)
(***************************************************************************)
worldVars == <<evalVars, storeVars, engineVars, hostVars, listVars, obsVars, coreVars>>

VariableLists == {VarsNotGiven, <<"x">>, <<"x", "a">>}

CallAllowed == cacheHits + cacheMisses < MaxCalls

ParseCall ==
    /\ CallAllowed
    /\ \E variables \in VariableLists :
          LET r == parse(cache, cacheHits, cacheMisses, pText, variables)
          IN /\ cache' = r.cache
             /\ cacheHits' = r.cacheHits
             /\ cacheMisses' = r.cacheMisses
             /\ pRes' = [op |-> "parse", text |-> pText, variables |-> variables,
                         threw |-> r.threw, msg |-> r.msg, value |-> r.value,
                         list |-> <<>>]
    /\ UNCHANGED <<pText, worldVars>>

DetectVariablesCall ==
    /\ LET r == detectVariables(pText)
       IN pRes' = [op |-> "detectVariables", text |-> pText, variables |-> <<>>,
                   threw |-> r.threw, msg |-> r.msg, value |-> NoParsed,
                   list |-> r.value]
    /\ UNCHANGED <<cache, cacheHits, cacheMisses, pText, worldVars>>

GetAllVariablesCall ==
    /\ pRes' = [op |-> "getAllVariables", text |-> pText, variables |-> <<>>,
                threw |-> FALSE, msg |-> NULL, value |-> NoParsed,
                list |-> getAllVariables(pText)]
    /\ UNCHANGED <<cache, cacheHits, cacheMisses, pText, worldVars>>

ValidateCall ==
    /\ LET r == validate(pText)
       IN pRes' = [op |-> "validate", text |-> pText, variables |-> <<>>,
                   threw |-> FALSE, msg |-> r.error, value |-> NoParsed,
                   list |-> <<>>]
    /\ UNCHANGED <<cache, cacheHits, cacheMisses, pText, worldVars>>

\* clearCache()
ClearCache ==
    /\ cacheHits + cacheMisses > 0
    /\ cache' = <<>>
    /\ cacheHits' = 0
    /\ cacheMisses' = 0
    /\ pRes' = [NoResult EXCEPT !.op = "clearCache"]
    /\ UNCHANGED <<pText, worldVars>>

\* the text under test is drawn from every token sequence of up to MaxLen tokens
\* and from the texts with calls
InitP ==
    /\ pText \in AllTexts \cup CallTexts
    /\ parsedExpression = NoParsed
    /\ evalRes = NoEval
    /\ cache = <<>>
    /\ cacheHits = 0
    /\ cacheMisses = 0
    /\ pRes = NoResult
    /\ InitWorld(Started(<<>>))
    /\ InitCore(ConstructedCore)
    /\ userSteps = 0

NextP ==
    \/ ParseCall
    \/ DetectVariablesCall
    \/ GetAllVariablesCall
    \/ ValidateCall
    \/ ClearCache

SpecParser == InitP /\ [][NextP]_vars

(***************************************************************************)
(* Calls on a FunctionEvaluator                                            *)
(***************************************************************************)
EvalTexts == {<<>>, <<"x">>, <<"a">>, <<"x", "a">>, <<"*">>}

ExpressionArgs ==
    {StringArg(text) : text \in EvalTexts}
        \cup {ParsedArg(ParsedValid(<<"x", "y">>, <<"x", "y">>)),
              ParsedArg(ParsedInvalid(<<"*">>, <<"x">>)), OtherArg}

Points == {NumberPoint(1), NumberPoint(2), ScopePoint(EmptyScope),
           ScopePoint([s \in {"x", "a"} |-> 2])}

\* evaluator.setExpression(expression, variables)
SetExpressionCall ==
    /\ CallAllowed
    /\ \E expression \in ExpressionArgs, variables \in VariableLists :
          LET r == setExpression(parsedExpression, cache, cacheHits, cacheMisses,
                                 expression, variables)
          IN /\ parsedExpression' = r.parsedExpression
             /\ cache' = r.cache
             /\ cacheHits' = r.cacheHits
             /\ cacheMisses' = r.cacheMisses
             /\ evalRes' = [NoEval EXCEPT !.op = "setExpression", !.threw = r.threw]
    /\ UNCHANGED <<pText, pRes, storeVars, engineVars, hostVars, listVars, obsVars, coreVars>>

\* evaluator.evaluateAt(point)
EvaluateAtCall ==
    /\ \E point \in Points :
          LET r == evaluateAt(parsedExpression, point)
          IN evalRes' = [op |-> "evaluateAt", threw |-> r.threw, nan |-> r.nan, v |-> r.v]
    /\ UNCHANGED <<parsedExpression, cache, cacheHits, cacheMisses, pText, pRes,
                   storeVars, engineVars, hostVars, listVars, obsVars, coreVars>>

\* new FunctionEvaluator(parsedExpression = null)
InitEvaluator ==
    /\ \E expression \in {ParsedArg(NoParsed), ParsedArg(ParsedValid(<<"x">>, <<"x">>)),
                          ParsedArg(ParsedInvalid(<<"*">>, <<"x">>))} :
          parsedExpression = expression.parsed
    /\ evalRes = NoEval
    /\ pText = <<>>
    /\ cache = <<>>
    /\ cacheHits = 0
    /\ cacheMisses = 0
    /\ pRes = NoResult
    /\ InitWorld(Started(<<>>))
    /\ InitCore(ConstructedCore)
    /\ userSteps = 0

NextEvaluator ==
    \/ SetExpressionCall
    \/ EvaluateAtCall

SpecEvaluator == InitEvaluator /\ [][NextEvaluator]_vars

(***************************************************************************)
(* A parser filled with distinct expressions, as by the eviction test      *)
(***************************************************************************)
MaxFills == 105

MaxHits == 1

\* the number of expressions the eviction test parses
TestInserts == 105

SymbolSeq == <<"x", "y", "a", "b">>

\* the n-th expression of the fill: x times four symbols that spell n in
\* base 4, pairwise distinct and valid
FillText(n) ==
    <<"x", SymbolSeq[((n \div 64) % 4) + 1], SymbolSeq[((n \div 16) % 4) + 1],
      SymbolSeq[((n \div 4) % 4) + 1], SymbolSeq[(n % 4) + 1]>>

\* how many expressions of the fill have been parsed: pText is the last one
FillIndex ==
    IF pText = <<>> THEN 0 ELSE CHOOSE n \in 1..(MaxFills + 1) : FillText(n) = pText

Parsed(r, text) ==
    /\ cache' = r.cache
    /\ cacheHits' = r.cacheHits
    /\ cacheMisses' = r.cacheMisses
    /\ pRes' = [op |-> "parse", text |-> text, variables |-> VarsNotGiven,
                threw |-> r.threw, msg |-> r.msg, value |-> r.value, list |-> <<>>]

\* parser.parse(the next expression of the fill)
FillNext ==
    /\ FillIndex < MaxFills
    /\ LET text == FillText(FillIndex + 1)
       IN /\ Parsed(parse(cache, cacheHits, cacheMisses, text, VarsNotGiven), text)
          /\ pText' = text
    /\ UNCHANGED worldVars

\* parser.parse(the expression of the oldest resident entry)
RepeatOldest ==
    /\ cache # <<>>
    /\ cacheHits < MaxHits
    /\ LET text == cache[1].value.expression
       IN Parsed(parse(cache, cacheHits, cacheMisses, text, VarsNotGiven), text)
    /\ UNCHANGED <<pText, worldVars>>

InitCache ==
    /\ InitParser
    /\ InitWorld(Started(<<>>))
    /\ InitCore(ConstructedCore)
    /\ userSteps = 0

NextCache ==
    \/ FillNext
    \/ RepeatOldest
    \/ ClearCache

SpecCache == InitCache /\ [][NextCache]_vars

(***************************************************************************)
(* Calls on an EventBus                                                    *)
(***************************************************************************)
MaxListeners == 2

MaxPublishes == 1

EventNames == {<<"e1">>, <<"e2">>}

Payloads == {EventData(<<>>, Prim("n:1"), Undefined), EventData(<<>>, Prim("n:2"), Undefined)}

Call(op, name, id) == [NoOp EXCEPT !.op = op, !.name = name, !.id = id]

\* EventBus.subscribe(eventName, callback) / EventBus.once(eventName, callback)
BusSubscribe ==
    /\ Len(registry) < MaxListeners
    /\ \E eventName \in EventNames, callback \in Callbacks, once \in BOOLEAN :
          CommitCore(EventBus_subscribe(Core, eventName, callback, once),
                     Call("subscribe", eventName, Len(registry) + 1))
    /\ UNCHANGED <<parserVars, storeVars, engineVars, hostVars, listVars, obsVars>>

\* the function returned by subscribe is called
BusToken ==
    /\ \E id \in 1..Len(registry) :
          /\ registry[id].owner = "bus"
          /\ CommitCore(EventBus_unsubscribe(Core, registry[id].name, id),
                        Call("token", registry[id].name, id))
    /\ UNCHANGED <<parserVars, storeVars, engineVars, hostVars, listVars, obsVars>>

\* EventBus.publish(eventName, data)
BusPublish ==
    /\ Len(eventHistory) < MaxPublishes
    /\ \E eventName \in EventNames, data \in Payloads :
          CommitCore(EventBus_publish(Core, eventName, data),
                     [Call("publish", eventName, 0) EXCEPT !.value = data.value])
    /\ UNCHANGED <<parserVars, storeVars, engineVars, hostVars, listVars, obsVars>>

\* EventBus.unsubscribeAll(eventName)
BusUnsubscribeAll ==
    /\ \E eventName \in DOMAIN subscribers :
          CommitCore(EventBus_unsubscribeAll(Core, eventName),
                     Call("unsubscribeAll", eventName, 0))
    /\ UNCHANGED <<parserVars, storeVars, engineVars, hostVars, listVars, obsVars>>

\* EventBus.clear()
BusClear ==
    /\ DOMAIN subscribers # {}
    /\ CommitCore(EventBus_clear(Core), Call("clear", <<>>, 0))
    /\ UNCHANGED <<parserVars, storeVars, engineVars, hostVars, listVars, obsVars>>

InitBus ==
    /\ InitParser
    /\ InitWorld(Started(<<>>))
    /\ InitCore(ConstructedCore)
    /\ userSteps = 0

NextBus ==
    \/ BusSubscribe
    \/ BusToken
    \/ BusPublish
    \/ BusUnsubscribeAll
    \/ BusClear

SpecBus == InitBus /\ [][NextBus]_vars

(***************************************************************************)
(* Calls on a StateManager                                                 *)
(***************************************************************************)
MaxWrites == 2

SetPaths == {<<"config", "a">>, <<"controls">>, <<"controls", "a">>, <<"controls", "a", "b">>}

MergePaths == {<<"controls">>, <<"controls", "a">>}

\* { b: 1 }
ObjectB == Graft(EmptyObject, <<"b">>, Prim("n:1"))

SetValues == {Prim("n:1"), Prim("null"), Prim("arr"), ObjectB}

SetCall(path, value, silent, merge) ==
    [path |-> path, value |-> value, silent |-> silent, merge |-> merge]

\* set() arguments: every path with every value, silent sets of a number,
\* and merging sets of every value
SetCalls ==
    {SetCall(path, value, FALSE, FALSE) : path \in SetPaths, value \in SetValues}
        \cup {SetCall(path, Prim("n:1"), TRUE, FALSE) : path \in SetPaths}
        \cup {SetCall(path, value, FALSE, TRUE) : path \in MergePaths, value \in SetValues}

Entry(path, value) == [path |-> path, value |-> value]

\* update() arguments, as Object.entries lists them
UpdateMaps ==
    { <<Entry(<<"controls">>, ObjectB), Entry(<<"controls", "a">>, Prim("n:1"))>>,
      <<Entry(<<"controls", "a">>, Prim("n:1")), Entry(<<"controls", "c">>, Prim("n:1"))>>,
      <<Entry(<<"controls", "a">>, Prim("n:1")), Entry(<<"config", "a">>, Prim("n:1"))>> }

\* listeners registered by the application before the calls: requests
\* [owner, name, callback], made in this order
Request(owner, name, callback) == [owner |-> owner, name |-> name, callback |-> callback]

Observers ==
    << Request("bus", StateChangedAt(<<"controls", "a", "b">>), "rec"),
       Request("bus", StateChanged, "throw"),
       Request("bus", StateChanged, "rec"),
       Request("bus", StateUpdated, "rec"),
       Request("store", <<"controls", "a", "b">>, "throw"),
       Request("store", <<"controls", "a", "b">>, "rec"),
       Request("store", <<"controls", "a">>, "rec"),
       Request("store", <<"controls">>, "rec") >>

\* path subscribers of which the first on every level throws
ThrowingObservers ==
    << Request("store", <<"controls", "a", "b">>, "throw"),
       Request("store", <<"controls", "a", "b">>, "rec"),
       Request("store", <<"controls", "a">>, "throw"),
       Request("store", <<"controls", "a">>, "rec"),
       Request("store", <<"controls">>, "throw"),
       Request("store", <<"controls">>, "rec") >>

Wirings == {<<>>, Observers, ThrowingObservers}

RECURSIVE Wired(_, _, _)
Wired(c, requests, i) ==
    IF i > Len(requests) THEN [c EXCEPT !.log = <<>>]
    ELSE Wired(IF requests[i].owner = "bus"
               THEN EventBus_subscribe(c, requests[i].name, requests[i].callback, FALSE)
               ELSE StateManager_subscribe(c, requests[i].name, requests[i].callback, FALSE),
               requests, i + 1)

\* StateManager.set(path, value, options)
StoreSet ==
    /\ Len(history) < MaxWrites
    /\ \E call \in SetCalls :
          CommitCore(StateManager_set(Core, call.path, call.value, call.silent, call.merge),
                     [Call("set", call.path, 0) EXCEPT !.value = call.value,
                                                       !.silent = call.silent,
                                                       !.merge = call.merge])
    /\ UNCHANGED <<parserVars, storeVars, engineVars, hostVars, listVars, obsVars>>

\* StateManager.update(updates, { silent }); an update that writes nothing
\* still publishes, so the events are capped as well
StoreUpdate ==
    /\ Len(history) < MaxWrites
    /\ Len(eventHistory) < 3 * MaxWrites
    /\ \E updates \in UpdateMaps, silent \in BOOLEAN :
          CommitCore(StateManager_update(Core, updates, silent, FALSE),
                     [Call("update", <<>>, 0) EXCEPT !.updates = updates,
                                                     !.silent = silent])
    /\ UNCHANGED <<parserVars, storeVars, engineVars, hostVars, listVars, obsVars>>

InitStore ==
    /\ InitParser
    /\ InitWorld(Started(<<>>))
    /\ \E requests \in Wirings : InitCore(Wired(ConstructedCore, requests, 1))
    /\ userSteps = 0

NextStore ==
    \/ StoreSet
    \/ StoreUpdate

SpecStore == InitStore /\ [][NextStore]_vars

(***************************************************************************)
(* Writes made from inside a notification                                  *)
(***************************************************************************)
\* the converting subscriber registered before a plain one
ConvertFirst ==
    << Request("store", <<"controls", "a">>, "convert"),
       Request("store", <<"controls", "a">>, "rec"),
       Request("store", <<"controls">>, "rec") >>

\* the converting subscriber registered after a plain one
ConvertLast ==
    << Request("store", <<"controls", "a">>, "rec"),
       Request("store", <<"controls", "a">>, "convert"),
       Request("store", <<"controls">>, "rec") >>

\* the conversion made by a listener of 'state:changed'
ConvertOnEvent ==
    << Request("bus", StateChanged, "convert"),
       Request("bus", StateChanged, "rec"),
       Request("store", <<"controls", "a">>, "rec"),
       Request("store", <<"controls">>, "rec") >>

ConvertWirings == {ConvertFirst, ConvertLast, ConvertOnEvent}

InitReentrant ==
    /\ InitParser
    /\ InitWorld(Started(<<>>))
    /\ \E requests \in ConvertWirings : InitCore(Wired(ConstructedCore, requests, 1))
    /\ userSteps = 0

NextReentrant ==
    \/ StoreSet
    \/ StoreUpdate

SpecReentrant == InitReentrant /\ [][NextReentrant]_vars

(***************************************************************************)
(* The two histories filled past their caps                                *)
(***************************************************************************)
MaxOps == 105

\* the arguments of the n-th call of the fill: names and values alternate, and
\* every third set repeats the value of the set before it
FillEvent(n) == IF n % 2 = 0 THEN <<"e1">> ELSE <<"e2">>

FillPayload(n) ==
    EventData(<<>>, IF (n \div 2) % 2 = 0 THEN Prim("n:1") ELSE Prim("n:2"), Undefined)

FillPath == <<"controls", "a">>

FillValue(n) == IF n % 3 = 2 THEN Prim("n:2") ELSE Prim("n:1")

OtherUnchanged ==
    UNCHANGED <<parserVars, storeVars, engineVars, hostVars, listVars,
                trace, sinceExpr, destroyed>>

\* EventBus.publish(the next event of the fill), on a bus that has carried
\* no state event
FillPublish ==
    /\ userSteps < MaxOps
    /\ history = <<>>
    /\ CommitCore(EventBus_publish(Core, FillEvent(userSteps), FillPayload(userSteps)),
                  [Call("publish", FillEvent(userSteps), 0)
                      EXCEPT !.value = FillPayload(userSteps).value])
    /\ userSteps' = userSteps + 1
    /\ OtherUnchanged

\* StateManager.set(path, the next value of the fill, { silent }): silent
\* sets first, then sets that publish
FillSet ==
    /\ userSteps < MaxOps
    /\ \A i \in 1..Len(eventHistory) : eventHistory[i].eventName \notin EventNames
    /\ \E silent \in BOOLEAN :
          /\ silent => eventHistory = <<>>
          /\ CommitCore(StateManager_set(Core, FillPath, FillValue(userSteps), silent, FALSE),
                        [Call("set", FillPath, 0) EXCEPT !.value = FillValue(userSteps),
                                                         !.silent = silent])
    /\ userSteps' = userSteps + 1
    /\ OtherUnchanged

InitHistory ==
    /\ InitParser
    /\ InitWorld(Started(<<>>))
    /\ \E requests \in {<<>>, Observers} : InitCore(Wired(ConstructedCore, requests, 1))
    /\ userSteps = 0

NextHistory ==
    \/ FillPublish
    \/ FillSet

SpecHistory == InitHistory /\ [][NextHistory]_vars

(***************************************************************************)
(* initialize() and reset() of the StateManager                            *)
(***************************************************************************)
MaxEvents == 5

\* { id: 'f1', error: 'bad' } and { id: 'f2' }
FunctionF1 == Graft(Graft(EmptyObject, <<"id">>, Prim("s:f1")), <<"error">>, Prim("s:bad"))

FunctionF2 == Graft(EmptyObject, <<"id">>, Prim("s:f2"))

\* configurations: { functions: [f1], graph: { xMin: 1 } }, { functions: [f1, f2] }, {}
ResetConfigs ==
    { Graft(Graft(Graft(EmptyObject, <<"functions">>, Prim("arr")),
                  <<"functions", "0">>, FunctionF1),
            <<"graph">>, Graft(EmptyObject, <<"xMin">>, Prim("n:1"))),
      Graft(Graft(Graft(EmptyObject, <<"functions">>, Prim("arr")),
                  <<"functions", "0">>, FunctionF1),
            <<"functions", "1">>, FunctionF2),
      EmptyObject }

\* sets made between the calls: a control, an error of a function, the status,
\* and the configuration taken away
ResetSets ==
    { SetCall(<<"controls", "a">>, Prim("n:1"), FALSE, FALSE),
      SetCall(<<"functions", "0", "error">>, Prim("s:e"), FALSE, FALSE),
      SetCall(<<"status">>, Prim("s:busy"), FALSE, FALSE),
      SetCall(<<"config">>, Prim("null"), FALSE, FALSE) }

ResetObservers ==
    << Request("bus", StateInitialized, "rec"),
       Request("bus", StateReset, "rec"),
       Request("store", <<"controls", "a">>, "rec"),
       Request("store", <<"functions">>, "rec") >>

ResetUnchanged ==
    UNCHANGED <<parserVars, storeVars, engineVars, hostVars, listVars, obsVars>>

\* StateManager.initialize(config)
StoreInitialize ==
    /\ Len(eventHistory) < MaxEvents
    /\ \E config \in ResetConfigs :
          CommitCore(StateManager_initialize(Core, config),
                     [Call("initialize", <<>>, 0) EXCEPT !.value = config])
    /\ ResetUnchanged

\* StateManager.set(path, value) between the calls
StoreDirty ==
    /\ Len(eventHistory) < MaxEvents
    /\ Len(history) < MaxWrites
    /\ \E call \in ResetSets :
          /\ ~WalkThrows(state, call.path)
          /\ CommitCore(StateManager_set(Core, call.path, call.value, call.silent, call.merge),
                        [Call("set", call.path, 0) EXCEPT !.value = call.value])
    /\ ResetUnchanged

\* StateManager.reset()
StoreReset ==
    /\ Len(eventHistory) < MaxEvents
    /\ CommitCore(StateManager_reset(Core), Call("reset", <<>>, 0))
    /\ ResetUnchanged

InitReset ==
    /\ InitParser
    /\ InitWorld(Started(<<>>))
    /\ \E requests \in {<<>>, ResetObservers} : InitCore(Wired(ConstructedCore, requests, 1))
    /\ userSteps = 0

NextReset ==
    \/ StoreInitialize
    \/ StoreDirty
    \/ StoreReset

SpecReset == InitReset /\ [][NextReset]_vars

\* The host runs every scheduled frame callback: weak fairness of Frame, with
\* ENABLED <<Frame>>_vars written as its guard (a callback is queued) and a
\* Frame step recognised by the entry it leaves first in the trace.
FrameFairness ==
    []<>(rafQueue = {}) \/ []<><<Len(trace') > 0 /\ trace'[1].k = "frame">>_vars

\* The host runs every due timer: weak fairness of TimerFire, written the same way.
TimerFairness ==
    []<>(\A t \in timers : t.remaining > 0)
        \/ []<><<Len(trace') > 0 /\ trace'[1].k = "timer">>_vars

\* ... and time passes while timers are pending
FairSpec == Spec /\ WF_vars(Tick) /\ FrameFairness /\ TimerFairness

(***************************************************************************)
(* Properties                                                              *)
(***************************************************************************)
Has(tr, k, p) == \E i \in 1..Len(tr) : tr[i] = [k |-> k, p |-> p]

Count(tr, k) == Cardinality({i \in 1..Len(tr) : tr[i].k = k})

\* the last handler was the frame callback / the parameter-detection timer
IsRenderTrace(tr) == Len(tr) > 0 /\ tr[1].k = "frame"

IsScanTrace(tr) == Len(tr) > 0 /\ tr[1] = [k |-> "timer", p |-> "param"]

InvalidText(text) == text # <<>> /\ ~mathParseOk(text)

LacksX(text) == ~InSeq(text, "x")

Scopes == { EmptyScope, [s \in {"x"} |-> 2], [s \in {"x", "y", "a", "b"} |-> 2] }

ParamTimers == {t \in timers : t.kind = "param"}

\* C1: parse(text) with the variables argument omitted never throws for a
\* non-empty text; for a syntactically invalid text or one without x it
\* returns isValid = false, a non-null error and an evaluate() that is NaN
\* for every scope.
C1_ParseNeverThrows ==
    (pRes.op = "parse" /\ pRes.variables = VarsNotGiven /\ pRes.text # <<>>)
        => /\ ~pRes.threw
           /\ (InvalidText(pRes.text) \/ LacksX(pRes.text))
                 => /\ ~pRes.value.isValid
                    /\ pRes.value.error # NULL
                    /\ \A scope \in Scopes : parsedEvaluate(pRes.value, scope).nan

\* C2: at most one frame callback is scheduled at any moment, it is the one
\* frameId names, no handler schedules more than one, and a request made
\* during a render schedules exactly one further frame.
C2_OneFrame ==
    /\ Cardinality(rafQueue) <= 1
    /\ rafQueue = (IF frameId = 0 THEN {} ELSE {frameId})
    /\ Count(trace, "raf") <= 1
    /\ (IsRenderTrace(trace) /\ Count(trace, "raf") = 1) => Cardinality(rafQueue) = 1

C2_Witness ==
    /\ IsRenderTrace(trace)
    /\ Count(trace, "raf") = 1
    /\ Cardinality(rafQueue) = 1

\* C3: in a render pass every state write comes after the last raster call,
\* the engine applies the pending map by at most one write, to 'functions',
\* only when some recorded error differs, and the map is empty afterwards.
C3_DeferredErrors ==
    [][IsRenderTrace(trace') =>
         /\ \A i, j \in 1..Len(trace') :
               (trace'[i].k \in {"set", "engine"}
                  /\ trace'[j].k \in {"raster", "stroke", "stroke-empty"}) => j < i
         /\ Count(trace', "engine") <= 1
         /\ \A i \in 1..Len(trace') : trace'[i].k = "engine" => trace'[i].p = "functions"
         /\ Count(trace', "engine") = 1 =>
               /\ Len(functions') = Len(functions)
               /\ \E j \in 1..Len(functions) : functions'[j].error # functions[j].error
         /\ Count(trace', "engine") = 0 => functions' = functions
         /\ pendingErrorUpdates' = <<>>]_vars

C3_Witness ==
    /\ IsRenderTrace(trace)
    /\ Count(trace, "stroke-empty") + Count(trace, "stroke") >= 2
    /\ Count(trace, "engine") = 1
    /\ \A i \in 1..Len(functions) : functions[i].error = NULL

\* C4: once the user stops, the system reaches a state with no pending frame
\* and no pending timer and stays there.
C4_Quiescence == <>[](rafQueue = {} /\ timers = {})

C4_Witness ==
    /\ userSteps > 0
    /\ rafQueue = {}
    /\ timers = {}
    /\ stViewport # 0
    /\ IsRenderTrace(trace)

\* C5: whenever the debounced parameter scan inserts a control into state, a
\* render frame is requested by that mutation.
C5_ScanRequestsFrame ==
    (IsScanTrace(trace) /\ Has(trace, "set", "controls")) => rafQueue # {}

\* C6: a function whose expression text is syntactically invalid has a
\* non-null error for as long as the text stays invalid.
C6_ErrorPersists ==
    \A i \in 1..Len(functions) :
        InvalidText(functions[i].expression) => Truthy(functions[i].error)

\* C7: at most one parameter-detection timer is pending, it is the one the
\* engine holds and it is due 300 ms after the last expression:updated event;
\* the scan it starts runs exactly then and leaves no such timer pending.
C7_Debounce ==
    /\ Cardinality(ParamTimers) <= 1
    /\ \A t \in ParamTimers :
          t.id = parameterDetectionTimeout /\ t.remaining + sinceExpr = ParamDelay
    /\ IsScanTrace(trace) => (sinceExpr = ParamDelay /\ ParamTimers = {})

C7_Witness ==
    /\ Has(trace, "cancel", "param")
    /\ Cardinality(ParamTimers) = 1
    /\ \A t \in ParamTimers : t.remaining = ParamDelay

\* free symbols other than x and y of the parsable expressions
FreeParams(F) ==
    {s \in Symbols \ {"x", "y"} :
        \E i \in 1..Len(F) : mathParseOk(F[i].expression) /\ InSeq(F[i].expression, s)}

C9_TeardownComplete ==
    destroyed =>
        /\ rafQueue = {}
        /\ timers = {}
        /\ pendingErrorUpdates = <<>>
        /\ unsubscribers = {}
        /\ ~resizeListener
        /\ ~canvasListeners

UndefinedViewport == [xMin |-> 0, xMax |-> 0, yMin |-> 0, yMax |-> 0]

\* what StateManager.get('viewport') returns
StoredViewport == IF stViewport = 0 THEN UndefinedViewport ELSE heap[stViewport]

\* C10: the value returned by get('viewport') changes only in a handler that
\* executes a set of 'viewport'.
C10_ViewportOnlyBySet ==
    [][StoredViewport' # StoredViewport => Has(trace', "set", "viewport")]_vars

(***************************************************************************)
(* Properties of the EventBus                                              *)
(***************************************************************************)
Ids(list) == [i \in 1..Len(list) |-> list[i].id]

\* the listeners of the event of the publish being made, as they are registered before it
Snapshot == MapGet(subscribers, lastOp'.name)

\* the invocations made by the dispatch of that publish itself, in order
OuterCalls(l) == SelectSeq(l, LAMBDA e : e.op = "call" /\ e.depth = 1)

Registered(id) ==
    \E name \in DOMAIN subscribers :
        \E i \in 1..Len(subscribers[name]) : subscribers[name][i].id = id

\* C11: within one publish the listeners invoked are exactly those registered
\* for the event when the dispatch starts, each once, in registration order,
\* whatever is subscribed or unsubscribed during the dispatch.
C11_SnapshotDispatch ==
    [][lastOp'.op = "publish" =>
         /\ Ids(OuterCalls(log')) = Ids(Snapshot)
         /\ \A i \in 1..Len(OuterCalls(log')) : OuterCalls(log')[i].name = lastOp'.name]_vars

\* a listener whose token was called by an earlier listener of the same
\* dispatch has been invoked all the same
C11_Witness ==
    /\ lastOp.op = "publish"
    /\ Len(OuterCalls(log)) = 2
    /\ registry[OuterCalls(log)[1].id].callback = "unsubNext"
    /\ registry[OuterCalls(log)[2].id].callback = "sub"
    /\ ~registry[OuterCalls(log)[2].id].once
    /\ ~Registered(OuterCalls(log)[2].id)
    /\ \E k \in 1..Len(log) : log[k].op = "subscribe" /\ log[k].depth = 1

\* C12: a once listener is invoked at most once over all publishes and is no
\* longer registered after its first invocation.
C12_OnceAtMostOnce ==
    \A id \in 1..Len(registry) :
        (registry[id].owner = "bus" /\ registry[id].once) =>
            /\ registry[id].calls <= 1
            /\ registry[id].calls = 1 => ~Registered(id)

\* C13: an exception thrown by a listener does not reach the publisher, and
\* every later listener of the snapshot is still invoked with the payload
\* that was published.
C13_ThrowIsolated ==
    [][lastOp'.op = "publish" =>
         /\ ~lastOp'.threw
         /\ \A i \in 1..Len(Snapshot) :
               Snapshot[i].callback = "throw" =>
                  \A j \in (i + 1)..Len(Snapshot) :
                     \E k, m \in 1..Len(log') :
                        /\ k < m
                        /\ log'[k].op = "caught" /\ log'[k].id = Snapshot[i].id
                        /\ log'[k].depth = 1
                        /\ log'[m].op = "call" /\ log'[m].id = Snapshot[j].id
                        /\ log'[m].depth = 1
                        /\ log'[m].data.value = lastOp'.value]_vars

C13_Witness ==
    /\ lastOp.op = "publish"
    /\ ~lastOp.threw
    /\ Len(OuterCalls(log)) = 2
    /\ registry[OuterCalls(log)[1].id].callback = "throw"
    /\ registry[OuterCalls(log)[2].id].callback = "rec"
    /\ OuterCalls(log)[2].data.value = lastOp.value

\* C14: calling the function returned by subscribe removes the listener of
\* that subscribe call and nothing else: every other listener of every event
\* stays, in the same order; a second call changes nothing.
C14_TokenRemovesOwn ==
    [][lastOp'.op = "token" =>
         \A name \in DOMAIN subscribers \cup DOMAIN subscribers' :
            MapGet(subscribers', name)
               = SelectSeq(MapGet(subscribers, name), LAMBDA sub : sub.id # lastOp'.id)]_vars

\* the listener is gone while another registration of the same callback for
\* the same event is still there
C14_Witness ==
    /\ lastOp.op = "token"
    /\ ~Registered(lastOp.id)
    /\ \E id \in 1..Len(registry) :
          /\ id > lastOp.id
          /\ registry[id].name = registry[lastOp.id].name
          /\ registry[id].callback = registry[lastOp.id].callback
          /\ Registered(id)

(***************************************************************************)
(* Properties of the StateManager                                          *)
(***************************************************************************)
\* a primitive: anything that is neither an object nor an array
IsPrimitive(v) == KindOf(v) \notin {"obj", "arr"}

\* the call being made is a set that wrote the tree
EffectiveSet(l) == \E k \in 1..Len(l) : l[k].op = "write"

Notifications(l) == SelectSeq(l, LAMBDA e : e.op \in {"publish", "call", "notify"})

\* the calls made on the path subscribers of name, in order
NotifiesOf(l, name) == SelectSeq(l, LAMBDA e : e.op = "notify" /\ e.name = name)

\* C15: a non-silent set(path, v) that directly follows a non-silent
\* set(path, v) with the same primitive v changes nothing and notifies
\* nobody: the two calls leave one history entry and one notification cycle.
C15_SecondSetIsNoOp ==
    [][(/\ lastOp.op = "set" /\ lastOp'.op = "set"
        /\ ~lastOp.threw /\ ~lastOp.silent /\ ~lastOp'.silent
        /\ lastOp'.name = lastOp.name /\ lastOp'.value = lastOp.value
        /\ IsPrimitive(lastOp.value))
       => /\ history' = history
          /\ state' = state
          /\ Notifications(log') = <<>>]_vars

\* C16: a non-silent set that writes a leaf path calls every subscriber of
\* each ancestor path with the value found at that ancestor after the write;
\* a silent set calls no subscriber and publishes no event.
C16_AncestorValue ==
    [][(lastOp'.op = "set" /\ EffectiveSet(log')) =>
         IF lastOp'.silent THEN Notifications(log') = <<>>
         ELSE \A i \in 1..(Len(lastOp'.name) - 1) :
                 LET parentPath == SubSeq(lastOp'.name, 1, i)
                     called == NotifiesOf(log', parentPath)
                 IN /\ Ids(called) = Ids(MapGet(stateSubscribers, parentPath))
                    /\ \A k \in 1..Len(called) :
                          /\ called[k].data.value = StateManager_get(state', parentPath)
                          /\ called[k].data.oldValue = Undefined]_vars

C16_Witness ==
    /\ lastOp.op = "set" /\ ~lastOp.silent
    /\ lastOp.name = <<"controls", "a", "b">>
    /\ lastOp.value = Prim("n:1")
    /\ Len(NotifiesOf(log, <<"controls", "a">>)) = 1
    /\ Len(NotifiesOf(log, <<"controls">>)) = 1
    /\ NotifiesOf(log, <<"controls">>)[1].data.value
          = Graft(EmptyObject, <<"a", "b">>, Prim("n:1"))

\* position of an effect in the order of a notification cycle of set(path):
\* the write, the state:changed:<path> event, the state:changed event, the
\* subscribers of path, then those of its ancestors from the nearest up
Stage(e, path) ==
    CASE e.op = "write" -> 0
      [] e.op \in {"publish", "call", "caught"} /\ e.name = StateChangedAt(path) -> 1
      [] e.op \in {"publish", "call", "caught"} /\ e.name = StateChanged -> 2
      [] e.op \in {"notify", "caught"} /\ e.name = path -> 3
      [] e.op \in {"notify", "caught"} /\ Len(e.name) < Len(path) -> 3 + Len(path) - Len(e.name)
      [] OTHER -> 99

\* C17: a non-silent set that changes state notifies in the order
\* state:changed:<path>, state:changed, subscribers of path in registration
\* order, subscribers of the ancestors from the nearest to the top-level
\* key; every one of them finds the new value in the tree and the history
\* entry already appended.
C17_NotificationOrder ==
    [][(lastOp'.op = "set" /\ ~lastOp'.silent /\ EffectiveSet(log')) =>
         LET path == lastOp'.name IN
         /\ \A k \in 1..(Len(log') - 1) : Stage(log'[k], path) <= Stage(log'[k + 1], path)
         /\ \A k \in 1..Len(log') : Stage(log'[k], path) # 99
         /\ Len(SelectSeq(log', LAMBDA e : e.op = "publish" /\ e.name = StateChangedAt(path))) = 1
         /\ Len(SelectSeq(log', LAMBDA e : e.op = "publish" /\ e.name = StateChanged)) = 1
         /\ Ids(SelectSeq(log', LAMBDA e : e.op = "call" /\ e.name = StateChangedAt(path)))
               = Ids(MapGet(subscribers, StateChangedAt(path)))
         /\ Ids(SelectSeq(log', LAMBDA e : e.op = "call" /\ e.name = StateChanged))
               = Ids(MapGet(subscribers, StateChanged))
         /\ Ids(NotifiesOf(log', path)) = Ids(MapGet(stateSubscribers, path))
         /\ \A k \in 1..Len(log') :
               /\ log'[k].hist = Len(history')
               /\ log'[k].seen = StateManager_get(state', log'[k].data.path)
         /\ history'[Len(history')].path = path]_vars

C17_Witness ==
    /\ lastOp.op = "set" /\ ~lastOp.silent
    /\ lastOp.name = <<"controls", "a", "b">>
    /\ Len(SelectSeq(log, LAMBDA e : e.op = "call")) = 3
    /\ Len(NotifiesOf(log, <<"controls", "a", "b">>)) = 2
    /\ Len(NotifiesOf(log, <<"controls", "a">>)) = 1
    /\ Len(NotifiesOf(log, <<"controls">>)) = 1
    /\ log[Len(log)].name = <<"controls">>

\* paths a and b do not lie on one branch of the tree
Apart(a, b) == ~IsPrefix(a, b) /\ ~IsPrefix(b, a)

\* C18: after an update that completes the tree holds every entry's value
\* (unless a later entry wrote the same branch), the writes happened in map
\* order, no path or ancestor subscriber was called, no state:changed event
\* was published and, unless silent, state:updated was published exactly once.
C18_UpdateAggregates ==
    [][(lastOp'.op = "update" /\ ~lastOp'.threw) =>
         LET updates == lastOp'.updates
             published == SelectSeq(log', LAMBDA e : e.op = "publish")
             writes == SelectSeq(log', LAMBDA e : e.op = "write")
         IN /\ \A i \in 1..Len(updates) :
                  \/ StateManager_get(state', updates[i].path) = updates[i].value
                  \/ \E j \in (i + 1)..Len(updates) : ~Apart(updates[i].path, updates[j].path)
            /\ \E at \in [1..Len(writes) -> 1..Len(updates)] :
                  /\ \A k \in 1..Len(writes) : writes[k].name = updates[at[k]].path
                  /\ \A k \in 1..(Len(writes) - 1) : at[k] < at[k + 1]
            /\ \A k \in 1..Len(log') : log'[k].op # "notify"
            /\ IF lastOp'.silent THEN Notifications(log') = <<>>
               ELSE /\ Len(published) = 1
                    /\ published[1].name = StateUpdated
                    /\ \A k \in 1..Len(log') :
                          log'[k].op = "call" => log'[k].name = StateUpdated]_vars

C18_Witness ==
    /\ lastOp.op = "update" /\ ~lastOp.threw /\ ~lastOp.silent
    /\ Len(lastOp.updates) = 2
    /\ Len(SelectSeq(log, LAMBDA e : e.op = "write")) = 2
    /\ Len(SelectSeq(log, LAMBDA e : e.op = "call")) = 1
    /\ DOMAIN stateSubscribers # {}
    /\ StateManager_get(state, <<"controls">>)
          = Graft(ObjectB, <<"a">>, Prim("n:1"))

\* C19: set(path, v) without merge completes without throwing and
\* afterwards get(path) returns v, in every reachable state of the tree.
C19_SetThenGet ==
    (lastOp.op = "set" /\ ~lastOp.merge) =>
        /\ ~lastOp.threw
        /\ StateManager_get(state, lastOp.name) = lastOp.value

\* C20: a merging set of a non-array object leaves at path an object whose
\* keys are those of the previous value and of v, with v's values winning
\* and the other keys unchanged; with an array or a primitive v the value
\* is replaced.
C20_MergeSemantics ==
    [][(lastOp'.op = "set" /\ lastOp'.merge /\ ~lastOp'.threw) =>
         LET old == StateManager_get(state, lastOp'.name)
             new == StateManager_get(state', lastOp'.name)
             v == lastOp'.value
         IN IF KindOf(v) = "obj"
            THEN /\ KindOf(new) = "obj"
                 /\ OwnKeys(new) = OwnKeys(old) \cup OwnKeys(v)
                 /\ \A key \in OwnKeys(v) : SubTree(new, <<key>>) = SubTree(v, <<key>>)
                 /\ \A key \in OwnKeys(old) \ OwnKeys(v) :
                       SubTree(new, <<key>>) = SubTree(old, <<key>>)
            ELSE new = v]_vars

\* the effects "caught" of a call: exceptions of listeners that were logged
Caught(l) == SelectSeq(l, LAMBDA e : e.op = "caught")

\* C21: when path or ancestor subscribers throw during a non-silent set,
\* set returns normally, the value is in the tree and in the last history
\* entry, and every subscriber of the path and of each ancestor is called.
C21_SubscriberThrowIsolated ==
    [][(lastOp'.op = "set" /\ ~lastOp'.silent /\ EffectiveSet(log')) =>
         LET path == lastOp'.name IN
         /\ ~lastOp'.threw
         /\ StateManager_get(state', path) = StateManager_get(Assigned(state, path, lastOp'.value, lastOp'.merge), path)
         /\ ~lastOp'.merge => StateManager_get(state', path) = lastOp'.value
         /\ Len(history') = Len(history) + 1
         /\ history'[Len(history')].path = path
         /\ history'[Len(history')].newValue = lastOp'.value
         /\ \A i \in 1..Len(path) :
               Ids(NotifiesOf(log', SubSeq(path, 1, i)))
                   = Ids(MapGet(stateSubscribers, SubSeq(path, 1, i)))]_vars

C21_Witness ==
    /\ lastOp.op = "set" /\ ~lastOp.silent /\ ~lastOp.threw
    /\ lastOp.name = <<"controls", "a", "b">>
    /\ Len(Caught(log)) = 3
    /\ Len(NotifiesOf(log, <<"controls", "a", "b">>)) = 2
    /\ Len(NotifiesOf(log, <<"controls", "a">>)) = 2
    /\ Len(NotifiesOf(log, <<"controls">>)) = 2
    /\ log[Len(log)].op = "notify"
    /\ StateManager_get(state, lastOp.name) = lastOp.value

(***************************************************************************)
(* Properties of the expression cache                                      *)
(***************************************************************************)
\* the step is a parse call that follows a parse call which returned
ParseAfterParse ==
    /\ pRes.op = "parse" /\ ~pRes.threw
    /\ pRes'.op = "parse"

\* C22: parsing the same (text, variables) pair a second time is a hit: it
\* returns the stored object, adds one to cacheHits and leaves cacheMisses
\* and the cache size unchanged; the same text with a different explicit
\* variable list is a miss that adds an entry of its own.
C22_SecondParseHits ==
    [][ParseAfterParse =>
         /\ pRes'.variables = pRes.variables
               => /\ ~pRes'.threw
                  /\ pRes'.value = pRes.value
                  /\ cacheIndex(cache, cacheKey(pText, pRes.value.variables)) # 0
                  /\ cacheHits' = cacheHits + 1
                  /\ cacheMisses' = cacheMisses
                  /\ cache' = cache
         /\ (/\ pRes'.variables # pRes.variables
             /\ pRes.variables # VarsNotGiven
             /\ pRes'.variables # VarsNotGiven)
               => /\ cacheHits' = cacheHits
                  /\ cacheMisses' = cacheMisses + 1
                  /\ Len(cache') = Len(cache) + 1
                  /\ cacheIndex(cache', cacheKey(pText, pRes.variables)) # 0
                  /\ cacheIndex(cache', cacheKey(pText, pRes'.variables)) # 0]_vars

\* C22 amended: a parse of the pair just parsed with a valid result is a hit
\* that returns the stored object and changes only cacheHits; the same valid
\* text with a different explicit variable list, not parsed with it before,
\* is a miss with an entry of its own; a parse that returned an invalid result stored nothing, so the
\* same call is a miss again.
C22_ValidParseHits ==
    [][ParseAfterParse =>
         /\ (pRes'.variables = pRes.variables /\ pRes.value.isValid)
               => /\ ~pRes'.threw
                  /\ pRes'.value = pRes.value
                  /\ pRes'.value = cache[cacheIndex(cache, cacheKey(pText, pRes.value.variables))].value
                  /\ cacheHits' = cacheHits + 1
                  /\ cacheMisses' = cacheMisses
                  /\ cache' = cache
         /\ (pRes'.variables = pRes.variables /\ ~pRes.value.isValid)
               => /\ ~pRes'.value.isValid
                  /\ cacheHits' = cacheHits
                  /\ cacheMisses' = cacheMisses + 1
                  /\ cache' = cache
         /\ (/\ pRes'.variables # pRes.variables
             /\ pRes.variables # VarsNotGiven
             /\ pRes'.variables # VarsNotGiven
             /\ pRes.value.isValid
             /\ ~\E i \in 1..Len(cache) : /\ cache[i].value.expression = pText
                                          /\ cache[i].value.variables = pRes'.variables)
               => /\ cacheHits' = cacheHits
                  /\ cacheMisses' = cacheMisses + 1
                  /\ Len(cache') = Len(cache) + 1
                  /\ cacheIndex(cache', cacheKey(pText, pRes.variables)) # 0
                  /\ cacheIndex(cache', cacheKey(pText, pRes'.variables))
                        # cacheIndex(cache', cacheKey(pText, pRes.variables))]_vars

C22_Witness ==
    /\ pRes.op = "parse" /\ pRes.variables = <<"x", "a">>
    /\ cacheHits = 1 /\ cacheMisses = 1
    /\ Len(cache) = 1
    /\ pRes.value = cache[1].value
    /\ cache[1].key = cacheKey(pText, <<"x", "a">>)

\* C23: the cache never holds more than maxCacheSize entries, and after
\* TestInserts parses of pairwise distinct valid expressions on a fresh or
\* cleared parser exactly maxCacheSize entries are resident.
C23_CacheBounded ==
    /\ Len(cache) <= maxCacheSize
    /\ cacheMisses = TestInserts => Len(cache) = maxCacheSize
    /\ cacheMisses <= maxCacheSize => Len(cache) = cacheMisses

C23_Witness ==
    /\ cacheMisses = TestInserts
    /\ pText = FillText(TestInserts)
    /\ Len(cache) = maxCacheSize
    /\ cache[1].value.expression = FillText(TestInserts - maxCacheSize + 1)

C25_EvaluateAtNeverThrows ==
    evalRes.op = "evaluateAt" =>
        /\ ~evalRes.threw
        /\ evalRes.nan \/ evalRes.v \in Int

(***************************************************************************)
(* Properties of the viewport                                              *)
(***************************************************************************)
\* C26: the engine's viewport always satisfies xMin < xMax and yMin < yMax.
C26_ViewportOrdered ==
    /\ FLess(heap[engViewport].xMin, heap[engViewport].xMax)
    /\ FLess(heap[engViewport].yMin, heap[engViewport].yMax)

(***************************************************************************)
(* Properties of the controls map                                          *)
(***************************************************************************)
\* a step of the render scheduler: render, parameter scan or viewport save,
\* pan, zoom, resize, teardown
SchedulerStep ==
    Frame \/ TimerFire \/ MouseMove \/ MouseUp \/ Wheel \/ ZoomButton \/ Resize \/ Destroy

\* C27: no step removes a key from controls, and a step of the render
\* scheduler leaves the value of every existing key as it is.
C27_ControlsOnlyGrow ==
    [][/\ DOMAIN controls \subseteq DOMAIN controls'
       /\ SchedulerStep => \A k \in DOMAIN controls : controls'[k] = controls[k]]_vars

\* a scan has just run while controls holds a symbol no expression uses
C27_Witness ==
    /\ IsScanTrace(trace)
    /\ \E k \in DOMAIN controls : k \notin FreeParams(functions)

(***************************************************************************)
(* C28: for every syntactically valid text detectVariables returns exactly *)
(* <<"x">> when x occurs free and y does not, <<"x", "y">> when both       *)
(* occur, and fails with the message naming the missing variable x when x  *)
(* does not occur; for the empty text it throws the input-shape error.     *)
(***************************************************************************)
\* symbol s occurs in text as a variable (not as the name of a called function)
OccursFree(text, s) == \E i \in 1..Len(text) : text[i] = s /\ ~IsCallee(text, i)

DetectedAs(text, r) ==
    IF text = <<>> THEN r.threw /\ r.msg = ShapeError
    ELSE mathParseOk(text) =>
            IF ~OccursFree(text, "x") THEN r.threw /\ r.msg = MissingXError
            ELSE /\ ~r.threw
                 /\ r.list = IF OccursFree(text, "y") THEN <<"x", "y">> ELSE <<"x">>

C28_DetectVariablesContract ==
    pRes.op = "detectVariables" => DetectedAs(pRes.text, pRes)

(***************************************************************************)
(* C29: getAllVariables never throws; it returns every free symbol of the  *)
(* text (no constants, no function names, not filtered to x and y), and    *)
(* the empty list for an empty or unparsable text; getAllVariables,        *)
(* validate and detectVariables leave the cache and the hit and miss       *)
(* counters as they were.                                                  *)
(***************************************************************************)
\* the free symbols of text, each once, in the order of their first occurrence
RECURSIVE FreeSymbolsFrom(_, _, _)
FreeSymbolsFrom(text, i, acc) ==
    IF i > Len(text) THEN acc
    ELSE IF /\ text[i] \in Symbols
            /\ text[i] \notin ConstantNames \cup FunctionNames
            /\ ~IsCallee(text, i)
         THEN FreeSymbolsFrom(text, i + 1, AddUnique(acc, text[i]))
         ELSE FreeSymbolsFrom(text, i + 1, acc)

ReadOnlyOps == {"getAllVariables", "validate", "detectVariables"}

C29_GetAllVariablesTotal ==
    [][/\ pRes'.op = "getAllVariables" =>
            /\ ~pRes'.threw
            /\ pRes'.list = IF pText = <<>> \/ ~mathParseOk(pText) THEN <<>>
                             ELSE FreeSymbolsFrom(pText, 1, <<>>)
       /\ pRes'.op \in ReadOnlyOps =>
            /\ cache' = cache
            /\ cacheHits' = cacheHits
            /\ cacheMisses' = cacheMisses]_vars

(***************************************************************************)
(* C30: the event history never holds more than 100 entries and the state  *)
(* history never more than 50; each holds the most recent entries in the   *)
(* order they were made (the oldest is dropped first); every publish adds  *)
(* one event entry, listeners or not, and every set that changes the value *)
(* adds one state entry, silent or not.                                    *)
(***************************************************************************)
\* the last n entries of h
Recent(h, n) == IF Len(h) > n THEN SubSeq(h, Len(h) - n + 1, Len(h)) ELSE h

PublishedEntry == [eventName |-> lastOp'.name,
                   data |-> EventData(<<>>, lastOp'.value, Undefined)]

SetData == EventData(lastOp'.name, lastOp'.value, StateManager_get(state, lastOp'.name))

SetEntry == [path |-> lastOp'.name, oldValue |-> StateManager_get(state, lastOp'.name),
             newValue |-> lastOp'.value]

SetChanges == KindOf(StateManager_get(state, lastOp'.name)) # KindOf(lastOp'.value)

C30_HistoriesBounded ==
    [][/\ Len(eventHistory') <= 100
       /\ Len(history') <= 50
       /\ lastOp'.op = "publish" =>
             eventHistory' = Recent(Append(eventHistory, PublishedEntry), 100)
       /\ lastOp'.op = "set" /\ SetChanges =>
             /\ history' = Recent(Append(history, SetEntry), 50)
             /\ eventHistory' =
                   IF lastOp'.silent THEN eventHistory
                   ELSE Recent(eventHistory \o
                                  <<[eventName |-> StateChangedAt(lastOp'.name), data |-> SetData],
                                    [eventName |-> StateChanged, data |-> SetData]>>, 100)
       /\ lastOp'.op = "set" /\ ~SetChanges =>
             history' = history /\ eventHistory' = eventHistory]_vars

\* both histories are full, an entry of each has been dropped, and the last
\* set published to a bus without listeners
C30_Witness ==
    /\ Len(eventHistory) = EventBus_maxHistory
    /\ Len(history) = StateManager_maxHistory
    /\ history[1].oldValue # Undefined
    /\ eventHistory[1].data.oldValue # Undefined
    /\ DOMAIN subscribers = {}
    /\ lastOp.op = "set"
    /\ ~lastOp.silent

(***************************************************************************)
(* C31: every render pass calls the raster in the order clear, grid, axes, *)
(* then one path per function; the paths are those of the functions that   *)
(* are visible and have a non-empty expression, in the order of the        *)
(* functions list, each evaluated with the controls as they were when the  *)
(* pass started.                                                           *)
(***************************************************************************)
IsRasterCall(e) == e.k \in {"raster", "stroke", "stroke-empty"}

\* the path of func under controls C: a stroke with or without a point
PathOf(func, C) ==
    LET parsed == parse(<<>>, 0, 0, func.expression, <<"x">> \o controlKeys(C)).value
    IN [k |-> IF finiteSamples(World, parsed, C) > 0 THEN "stroke" ELSE "stroke-empty",
        p |-> ToString(func.id)]

RECURSIVE ExpectedPaths(_, _, _)
ExpectedPaths(F, C, i) ==
    IF i > Len(F) THEN <<>>
    ELSE (IF F[i].visible /\ F[i].expression # <<>> THEN <<PathOf(F[i], C)>> ELSE <<>>)
            \o ExpectedPaths(F, C, i + 1)

C31_RenderOrder ==
    [][IsRenderTrace(trace') =>
         LET calls == SelectSeq(trace', IsRasterCall)
         IN /\ calls = <<[k |-> "raster", p |-> "clear"], [k |-> "raster", p |-> "grid"],
                         [k |-> "raster", p |-> "axes"]>>
                           \o ExpectedPaths(functions, controls, 1)
            /\ \A i \in 1..Len(calls) : trace'[i + 1] = calls[i]]_vars

\* a pass over two functions with expressions of which only the second is visible
C31_Witness ==
    /\ IsRenderTrace(trace)
    /\ Len(functions) = 2
    /\ ~functions[1].visible /\ functions[1].expression # <<>>
    /\ functions[2].visible /\ functions[2].expression # <<>>
    /\ Len(SelectSeq(trace, IsRasterCall)) = 4

(***************************************************************************)
(* C32: a zoom writes nothing to state: it cancels the pending save timer  *)
(* and starts a new one of 500 ms, so that at most one save timer is       *)
(* pending and a burst of zooms ends in one write of 'viewport', made by   *)
(* the timer when it is due and holding the engine's viewport; a pan move  *)
(* writes nothing, and mouse-up writes once.                               *)
(***************************************************************************)
SaveTimers == {t \in timers : t.kind = "save"}

IsSaveTrace(tr) == Len(tr) > 0 /\ tr[1] = [k |-> "timer", p |-> "save"]

IsMouseUpTrace(tr) == Len(tr) > 0 /\ tr[1] = [k |-> "engine", p |-> "viewport"]

Published(l) ==
    LET pubs == SelectSeq(l, LAMBDA e : e.op = "publish")
    IN [i \in 1..Len(pubs) |-> pubs[i].name]

HeldConfig == StateManager_get(state, <<"config">>)

\* every function of the held configuration is in the new tree, with its own
\* fields except error, which is null
FunctionsReseeded ==
    LET list == StateManager_get(HeldConfig, <<"functions">>)
        seeded == StateManager_get(state', <<"functions">>)
    IN IF KindOf(list) = "arr"
       THEN /\ OwnKeys(seeded) = OwnKeys(list)
            /\ \A k \in OwnKeys(list) :
                  /\ seeded[<<k, "error">>] = "null"
                  /\ \A p \in DOMAIN list :
                        (Len(p) > 1 /\ p[1] = k /\ p[2] # "error") => seeded[p] = list[p]
       ELSE seeded = Prim("arr")

FailingExplicitParse ==
    /\ pRes'.op = "parse"
    /\ pRes'.variables # VarsNotGiven
    /\ pText # <<>>
    /\ ~mathParseOk(pText)

C34_OnlyValidResident ==
    [][/\ \A i \in 1..Len(cache') : cache'[i].value.isValid
       /\ Len(cache') <= cacheMisses'
       /\ FailingExplicitParse =>
             /\ ~pRes'.threw
             /\ ~pRes'.value.isValid
             /\ cacheMisses' = cacheMisses + 1
             /\ cacheHits' = cacheHits
             /\ cache' = cache]_vars

\* the same failing parse made twice: two misses, nothing resident
C34_Witness ==
    /\ pRes.op = "parse"
    /\ pRes.variables = <<"x">>
    /\ ~pRes.value.isValid
    /\ cacheMisses = 2
    /\ cacheHits = 0
    /\ cache = <<>>

(***************************************************************************)
(* C35: in a non-silent merging set the value handed to the subscribers of *)
(* the path itself, and carried by the two state:changed events, is the    *)
(* value get(path) returns after the write (the merged object), for every  *)
(* object v.                                                               *)
(***************************************************************************)
PublishesOf(l) == SelectSeq(l, LAMBDA e : e.op = "publish")

C35_MergedValueDelivered ==
    [][(/\ lastOp'.op = "set" /\ lastOp'.merge /\ ~lastOp'.silent
        /\ KindOf(lastOp'.value) = "obj"
        /\ EffectiveSet(log'))
       => LET path == lastOp'.name
              called == NotifiesOf(log', path)
              events == PublishesOf(log')
          IN /\ \A k \in 1..Len(called) :
                   called[k].data.value = StateManager_get(state', path)
             /\ \A k \in 1..Len(events) :
                   events[k].data.value = StateManager_get(state', path)]_vars

(***************************************************************************)
(* C36: when a listener or subscriber notified by set(path, v1) itself     *)
(* calls set(path, v2), then on return of the outer set the last value     *)
(* delivered to every direct-path subscriber of path is get(path).         *)
(***************************************************************************)
WritesOf(l, name) == SelectSeq(l, LAMBDA e : e.op = "write" /\ e.name = name)

LastDeliveredTo(l, id, name) ==
    LET mine == SelectSeq(l, LAMBDA e : e.op = "notify" /\ e.id = id /\ e.name = name)
    IN mine[Len(mine)].data.value

ReentrantSet ==
    /\ lastOp.op = "set"
    /\ ~lastOp.silent
    /\ Len(WritesOf(log, lastOp.name)) = 2
    /\ WritesOf(log, lastOp.name)[1].data.value = lastOp.value
    /\ WritesOf(log, lastOp.name)[2].data.value # lastOp.value

C36_NoStaleSubscriber ==
    ReentrantSet
        => \A k \in 1..Len(MapGet(stateSubscribers, lastOp.name)) :
              LastDeliveredTo(log, MapGet(stateSubscribers, lastOp.name)[k].id, lastOp.name)
                  = StateManager_get(state, lastOp.name)

(***************************************************************************)
(* C37: a set on a path invokes only the subscribers of that path and of   *)
(* its ancestors; subscribers of descendant paths are not invoked, even    *)
(* when the value at their own path changes.                               *)
(***************************************************************************)
AllNotifies(l) == SelectSeq(l, LAMBDA e : e.op = "notify")

C37_OnlyPathAndAncestors ==
    [][lastOp'.op = "set"
       => \A k \in 1..Len(AllNotifies(log')) :
             /\ Len(AllNotifies(log')[k].name) > 0
             /\ IsPrefix(AllNotifies(log')[k].name, lastOp'.name)]_vars

\* 'controls' has just been replaced, which removed the value at
\* 'controls.a'; the subscriber of 'controls' was called and the one of
\* 'controls.a' was not
C37_Witness ==
    /\ lastOp.op = "set"
    /\ lastOp.name = <<"controls">>
    /\ Len(history) = 2
    /\ history[1].path = <<"controls", "a">>
    /\ KindOf(history[1].newValue) = "n:1"
    /\ StateManager_get(state, <<"controls", "a">>) = Undefined
    /\ <<"controls", "a">> \in DOMAIN stateSubscribers
    /\ Len(NotifiesOf(log, <<"controls">>)) > 0
    /\ Len(NotifiesOf(log, <<"controls", "a">>)) = 0

(***************************************************************************)
(* C38: after any sequence of addExpression, updateExpression,             *)
(* toggleVisibility and deleteExpression the records of the functions list *)
(* have pairwise distinct ids; edit and toggle change only the targeted    *)
(* record and keep every id and the list order; delete removes exactly the *)
(* records with the given id.                                              *)
(***************************************************************************)
DistinctIds(F) == \A i, j \in 1..Len(F) : i # j => F[i].id # F[j].id

IdsOf(F) == [i \in 1..Len(F) |-> F[i].id]

ChangedRecords(F, G) == {i \in 1..Len(F) : F[i] # G[i]}

\* the step is one operation: the render that follows it made no
\* auto-conversion, which is a further updateExpression of another record
OneListWrite(tr) == Count(tr, "set") = 1

C38_ListOperations ==
    [][/\ DistinctIds(functions')
       /\ (OneListWrite(trace') /\ (EditExpression \/ ToggleVisibility))
            => /\ IdsOf(functions') = IdsOf(functions)
               /\ Cardinality(ChangedRecords(functions, functions')) <= 1
       /\ (OneListWrite(trace') /\ DeleteExpression)
            => \E id \in FunctionIds :
                  functions' = SelectSeq(functions, LAMBDA f : f.id # id)]_vars

====
